---- MODULE Spec2Model ----
(***************************************************************************)
(* In-memory record stores of the FastAPI tutorial snapshots.              *)
(*                                                                         *)
(* Every snapshot is its own application process with its own module-level *)
(* dictionaries; `snapshot` says which application the behaviour is a run  *)
(* of.  Handlers are `async def` coroutines on one event loop: a handler   *)
(* holds the loop from the statement it starts with to its next await      *)
(* (`running`), and the handlers of the stores contain no await.  A        *)
(* handler is modelled statement by statement, `pc[t]` being the statement *)
(* task t executes next.                                                   *)
(*                                                                         *)
(* A Python dict is a sequence of [k, v] entries in insertion order.       *)
(* float prices are modelled by the integers of the same value, 25.5 by    *)
(* 255 tenths (snapshot 10 counts in tenths).                              *)
(***************************************************************************)
EXTENDS Integers, Sequences, FiniteSets, TLC

VARIABLES
    snapshot,       \* the application that runs: "06", "09", "10", "12"
    items_db,       \* 06_main.py:74, 12_main.py:11  (dict id -> item dict)
    item_next_id,   \* 12_main.py:18
    fake_users_db,  \* 10_main.py:62
    fake_items_db,  \* 10_main.py:63
    pc,             \* per task: the statement it executes next
    req,            \* per task: the request it serves (handler arguments)
    local,          \* per task: the handler's local variables
    resp,           \* the response sent by the step just taken, if any
    running,        \* the task that holds the event loop, 0 when it is free
    assigned,       \* history: the keys written by creates, in order
    created,        \* history: the records written by the creates of
                    \* snapshot 06, in order
    deleted,        \* history: the keys removed by successful deletes
    n_deleted,      \* history: the number of successful deletes
    cwd,            \* the working directory of the process (os.getcwd())
    disk,           \* the regular files: absolute path -> content
    clock,          \* time.time(), in units of 0.1 s
    started         \* history, per task: the clock when the middleware
                    \* began to serve its request

vars == <<snapshot, items_db, item_next_id, fake_users_db, fake_items_db,
          pc, req, local, resp, running, assigned, created, deleted,
          n_deleted, cwd, disk, clock, started>>

store_vars == <<items_db, item_next_id, fake_users_db, fake_items_db>>
history_vars == <<assigned, created, deleted, n_deleted>>
env_vars == <<cwd, disk, clock, started>>

---------------------------------------------------------------------------
(* Bounds *)

NumTasks == 2
MaxId == 4

Tasks == 1..NumTasks

---------------------------------------------------------------------------
(* Python dict: insertion-ordered entries *)

Entry(k, v) == [k |-> k, v |-> v]

DictKeys(d) == {d[i].k : i \in DOMAIN d}

DictHas(d, k) == k \in DictKeys(d)

DictGetFirst(d, k) == d[1].v
DictGet(d, k) == d[CHOOSE i \in DOMAIN d : d[i].k = k].v

\* d[k] = v : replaces the value in place, or appends a new entry
DictSetAlwaysAppend(d, k, v) == Append(d, Entry(k, v))
DictSet(d, k, v) ==
    IF DictHas(d, k)
    THEN [i \in DOMAIN d |-> IF d[i].k = k THEN Entry(k, v) ELSE d[i]]
    ELSE Append(d, Entry(k, v))

\* del d[k]
DictDelKeepsKey(d, k) == d
DictDel(d, k) == SelectSeq(d, LAMBDA e : e.k # k)

\* list(d.values())
DictValuesReversed(d) == [i \in DOMAIN d |-> d[Len(d) + 1 - i].v]
DictValues(d) == [i \in DOMAIN d |-> d[i].v]

---------------------------------------------------------------------------
(* Requests, responses, the event loop *)

NoReq == [op |-> "none"]
NoLocal == [set |-> FALSE]
NoResp == [status |-> 0]

\* response_model=M: the response body holds the fields M declares, only
ResponseModelUnfiltered(fields, value) == value
ResponseModel(fields, value) == [f \in fields |-> value[f]]

\* HTTPException(status_code, detail)
HTTPException(status_code, detail) ==
    [status |-> status_code, body |-> [detail |-> detail]]

\* the statements of the store handlers that hold an await: none
AwaitAfterStore == {"create12_store"}
AwaitAfterCheck == {"delete_check", "update_check"}
AwaitPoints == {}

\* the statements of the upload handlers that hold an await (aiofiles.open,
\* file.read, out_file.write, the close at the end of async with) and of
\* the middleware and its endpoints (call_next, asyncio.sleep)
AwaitPointsIO == {"single_open", "single_read", "single_write",
                  "single_close", "multi_open", "multi_read", "multi_write",
                  "multi_close"}

\* the statements of the timing middleware and of its endpoints after
\* which the request is suspended: await call_next(request), the end of the
\* endpoint (its response reaches the middleware through a stream) and
\* await asyncio.sleep(0.1)
AwaitPoints08 == {"mw_call_next", "cors_preflight", "not_found",
                  "read_root", "ping_sleep", "ping_return"}

\* task t may execute its next statement
CanRun(t) == running = t \/ (running = 0 /\ pc[t] \notin {"idle", "call"})

\* the loop after task t executed the statement at label l, not its last
Loop(t, l) ==
    IF l \in AwaitPoints \cup AwaitPointsIO \cup AwaitPoints08 THEN 0 ELSE t

\* request r arrives (its route r.op, and its body where the model
\* validates it): task t is created for it and waits for the loop
Receive(t, r) ==
    /\ pc[t] = "idle"
    /\ pc' = [pc EXCEPT ![t] = "call"]
    /\ req' = [req EXCEPT ![t] = r]
    /\ resp' = NoResp
    /\ UNCHANGED <<local, running>>

\* the framework has parsed the request of task t into the arguments r and
\* calls the handler: t gets the loop and starts at label l
Start(t, op, l, r) ==
    /\ running = 0
    /\ pc[t] = "call"
    /\ req[t].op = op
    /\ pc' = [pc EXCEPT ![t] = l]
    /\ req' = [req EXCEPT ![t] = r]
    /\ resp' = NoResp
    /\ local' = local
    /\ running' = t

\* task t goes from label l to label m
Goto(t, l, m) ==
    /\ pc' = [pc EXCEPT ![t] = m]
    /\ req' = req
    /\ resp' = NoResp
    /\ running' = Loop(t, l)

\* task t ends: response r is sent and the task is free for a new request
Finish(t, r) ==
    /\ pc' = [pc EXCEPT ![t] = "idle"]
    /\ req' = [req EXCEPT ![t] = NoReq]
    /\ local' = [local EXCEPT ![t] = NoLocal]
    /\ resp' = r
    /\ running' = 0

---------------------------------------------------------------------------
(* Snapshot 12: items_db with item_next_id *)

ItemFields12 == {"name", "price"}

Items12 == {[name |-> "Laptop", price |-> 1200],
            [name |-> "Keyboard", price |-> 75]}

\* items_db = {1: {...}, 2: {...}}
SeedItems12 == <<Entry(1, [name |-> "Laptop", price |-> 1200]),
                 Entry(2, [name |-> "Keyboard", price |-> 75])>>

\* item_next_id = 3
InitialNextId12 == 3

Init12 ==
    /\ items_db = SeedItems12
    /\ item_next_id = InitialNextId12
    /\ fake_users_db = <<>>
    /\ fake_items_db = <<>>

\* the item_id path parameters of the requests
PathIds12 == 1..MaxId

\* POST /items/ : the body validated as Item
create_item12_call(t) ==
    /\ snapshot = "12"
    /\ item_next_id <= MaxId
    /\ \E item \in Items12 :
         Start(t, "create_item", "create12_store", [op |-> "create_item", item |-> item])
    /\ UNCHANGED <<snapshot, env_vars, store_vars, history_vars>>

\* the key create_item writes
CreateKeyByLen == Len(items_db) + 1
CreateKey == item_next_id

\* items_db[item_next_id] = item.model_dump()
create_item12_store(t) ==
    /\ snapshot = "12" /\ pc[t] = "create12_store" /\ CanRun(t)
    /\ items_db' = DictSet(items_db, CreateKey, req[t].item)
    /\ local' = local
    /\ assigned' = Append(assigned, CreateKey)
    /\ Goto(t, "create12_store", "create12_info")
    /\ UNCHANGED <<snapshot, env_vars, item_next_id, fake_users_db, fake_items_db,
                   created, deleted, n_deleted>>

\* created_item_info = {"id": item_next_id, **item.model_dump()}
create_item12_info(t) ==
    /\ snapshot = "12" /\ pc[t] = "create12_info" /\ CanRun(t)
    /\ local' = [local EXCEPT ![t] =
                   [set |-> TRUE,
                    created_item_info |->
                        [id |-> item_next_id,
                         name |-> req[t].item.name,
                         price |-> req[t].item.price]]]
    /\ Goto(t, "create12_info", "create12_incr")
    /\ UNCHANGED <<snapshot, env_vars, store_vars, history_vars>>

\* item_next_id += 1
create_item12_incr_twice(t) ==
    /\ snapshot = "12" /\ pc[t] = "create12_incr" /\ CanRun(t)
    /\ item_next_id' = item_next_id + 2
    /\ Goto(t, "create12_incr", "create12_return")
    /\ UNCHANGED <<snapshot, env_vars, items_db, fake_users_db, fake_items_db,
                   local, history_vars>>
create_item12_incr(t) ==
    /\ snapshot = "12" /\ pc[t] = "create12_incr" /\ CanRun(t)
    /\ item_next_id' = item_next_id + 1
    /\ Goto(t, "create12_incr", "create12_return")
    /\ UNCHANGED <<snapshot, env_vars, items_db, fake_users_db, fake_items_db,
                   local, history_vars>>

\* return created_item_info  (status_code=201, response_model=Item)
create_item12_return(t) ==
    /\ snapshot = "12" /\ pc[t] = "create12_return" /\ CanRun(t)
    /\ Finish(t, [status |-> 201,
                  body |-> ResponseModel(ItemFields12,
                                         local[t].created_item_info)])
    /\ UNCHANGED <<snapshot, env_vars, store_vars, history_vars>>

\* DELETE /items/{item_id}
delete_item_call(t) ==
    /\ snapshot = "12"
    /\ \E item_id \in PathIds12 :
         Start(t, "delete_item", "delete_check", [op |-> "delete_item", item_id |-> item_id])
    /\ UNCHANGED <<snapshot, env_vars, store_vars, history_vars>>

\* if item_id in items_db: ... else: raise HTTPException(404)
delete_item_check(t) ==
    /\ snapshot = "12" /\ pc[t] = "delete_check" /\ CanRun(t)
    /\ IF DictHas(items_db, req[t].item_id)
       THEN Goto(t, "delete_check", "delete_del")
            /\ UNCHANGED local
       ELSE Finish(t, HTTPException(404, "Item not found"))
    /\ UNCHANGED <<snapshot, env_vars, store_vars, history_vars>>

\* del items_db[item_id]  (KeyError, a 500, when the key is gone)
delete_item_del(t) ==
    /\ snapshot = "12" /\ pc[t] = "delete_del" /\ CanRun(t)
    /\ IF DictHas(items_db, req[t].item_id)
       THEN /\ items_db' = DictDel(items_db, req[t].item_id)
            /\ deleted' = deleted \cup {req[t].item_id}
            /\ n_deleted' = n_deleted + 1
            /\ Goto(t, "delete_del", "delete_return")
            /\ UNCHANGED local
       ELSE /\ Finish(t, [status |-> 500, body |-> [detail |-> "KeyError"]])
            /\ UNCHANGED <<items_db, deleted, n_deleted>>
    /\ UNCHANGED <<snapshot, env_vars, item_next_id, fake_users_db, fake_items_db,
                   assigned, created>>

\* return None  (status_code=204)
delete_item_return(t) ==
    /\ snapshot = "12" /\ pc[t] = "delete_return" /\ CanRun(t)
    /\ Finish(t, [status |-> 204])
    /\ UNCHANGED <<snapshot, env_vars, store_vars, history_vars>>

\* PUT /items/{item_id} : the body validated as Item
update_item_call(t) ==
    /\ snapshot = "12"
    /\ \E item_id \in PathIds12, item \in Items12 :
         Start(t, "update_item", "update_check",
               [op |-> "update_item", item_id |-> item_id, item |-> item])
    /\ UNCHANGED <<snapshot, env_vars, store_vars, history_vars>>

\* if item_id not in items_db: raise HTTPException(404)
update_item_check_upsert(t) ==
    /\ snapshot = "12" /\ pc[t] = "update_check" /\ CanRun(t)
    /\ IF DictHas(items_db, req[t].item_id)
       THEN Goto(t, "update_check", "update_compare")
            /\ UNCHANGED <<local, items_db>>
       ELSE /\ items_db' = DictSet(items_db, req[t].item_id, req[t].item)
            /\ Finish(t, HTTPException(404, "Item not found"))
    /\ UNCHANGED <<snapshot, env_vars, item_next_id, fake_users_db, fake_items_db,
                   history_vars>>
update_item_check(t) ==
    /\ snapshot = "12" /\ pc[t] = "update_check" /\ CanRun(t)
    /\ IF DictHas(items_db, req[t].item_id)
       THEN Goto(t, "update_check", "update_compare")
            /\ UNCHANGED local
       ELSE Finish(t, HTTPException(404, "Item not found"))
    /\ UNCHANGED <<snapshot, env_vars, store_vars, history_vars>>

\* if items_db[item_id] == item.model_dump(): return Response(304)
update_item_compare_never_304(t) ==
    /\ snapshot = "12" /\ pc[t] = "update_compare" /\ CanRun(t)
    /\ IF ~DictHas(items_db, req[t].item_id)
       THEN Finish(t, [status |-> 500, body |-> [detail |-> "KeyError"]])
       ELSE Goto(t, "update_compare", "update_store")
            /\ UNCHANGED local
    /\ UNCHANGED <<snapshot, env_vars, store_vars, history_vars>>
update_item_compare(t) ==
    /\ snapshot = "12" /\ pc[t] = "update_compare" /\ CanRun(t)
    /\ IF ~DictHas(items_db, req[t].item_id)
       THEN Finish(t, [status |-> 500, body |-> [detail |-> "KeyError"]])
       ELSE IF DictGet(items_db, req[t].item_id) = req[t].item
       THEN Finish(t, [status |-> 304])
       ELSE Goto(t, "update_compare", "update_store")
            /\ UNCHANGED local
    /\ UNCHANGED <<snapshot, env_vars, store_vars, history_vars>>

\* the value update_item stores under item_id
UpdateMerged(old, item) == [old EXCEPT !.name = item.name]
UpdateValue(old, item) == item

\* items_db[item_id] = item.model_dump()
update_item_store(t) ==
    /\ snapshot = "12" /\ pc[t] = "update_store" /\ CanRun(t)
    /\ items_db' =
         DictSet(items_db, req[t].item_id,
                 IF DictHas(items_db, req[t].item_id)
                 THEN UpdateValue(DictGet(items_db, req[t].item_id),
                                  req[t].item)
                 ELSE req[t].item)
    /\ Goto(t, "update_store", "update_return")
    /\ UNCHANGED <<snapshot, env_vars, item_next_id, fake_users_db, fake_items_db,
                   local, history_vars>>

\* return items_db[item_id]  (response_model=Item)
update_item_return(t) ==
    /\ snapshot = "12" /\ pc[t] = "update_return" /\ CanRun(t)
    /\ IF DictHas(items_db, req[t].item_id)
       THEN Finish(t, [status |-> 200,
                       body |-> ResponseModel(ItemFields12,
                                    DictGet(items_db, req[t].item_id))])
       ELSE Finish(t, [status |-> 500, body |-> [detail |-> "KeyError"]])
    /\ UNCHANGED <<snapshot, env_vars, store_vars, history_vars>>

\* the operations of the application (its routes)
Routes12 == {"create_item", "delete_item", "update_item"}

request12(t) ==
    /\ snapshot = "12"
    /\ \E op \in Routes12 : Receive(t, [op |-> op])
    /\ UNCHANGED <<snapshot, env_vars, store_vars, history_vars>>

Next12 ==
    \E t \in Tasks :
        \/ request12(t)
        \/ create_item12_call(t)
        \/ create_item12_store(t)
        \/ create_item12_info(t)
        \/ create_item12_incr(t)
        \/ create_item12_return(t)
        \/ delete_item_call(t)
        \/ delete_item_check(t)
        \/ delete_item_del(t)
        \/ delete_item_return(t)
        \/ update_item_call(t)
        \/ update_item_check(t)
        \/ update_item_compare(t)
        \/ update_item_store(t)
        \/ update_item_return(t)

---------------------------------------------------------------------------
(* Python str, as a sequence of characters; Optional[T] as <<>> or <<x>> *)

None == <<>>
Some(x) == <<x>>

LowerCase == <<"a", "b", "c", "d", "e", "f", "g", "h", "i", "j", "k", "l",
               "m", "n", "o", "p", "q", "r", "s", "t", "u", "v", "w", "x",
               "y", "z">>
UpperCase == <<"A", "B", "C", "D", "E", "F", "G", "H", "I", "J", "K", "L",
               "M", "N", "O", "P", "Q", "R", "S", "T", "U", "V", "W", "X",
               "Y", "Z">>

IsLower(c) == \E i \in DOMAIN LowerCase : LowerCase[i] = c
IsUpper(c) == \E i \in DOMAIN UpperCase : UpperCase[i] = c
IsCased(c) == IsLower(c) \/ IsUpper(c)

ToLower(c) ==
    IF IsUpper(c)
    THEN LowerCase[CHOOSE i \in DOMAIN UpperCase : UpperCase[i] = c]
    ELSE c

ToUpper(c) ==
    IF IsLower(c)
    THEN UpperCase[CHOOSE i \in DOMAIN LowerCase : LowerCase[i] = c]
    ELSE c

\* str.lower()
StrLower(s) == [i \in DOMAIN s |-> ToLower(s[i])]

\* str.title(): a cased character is upper case after an uncased one (or
\* at the start) and lower case after a cased one
StrTitle(s) ==
    [i \in DOMAIN s |->
        IF i > 1 /\ IsCased(s[i - 1]) THEN ToLower(s[i]) ELSE ToUpper(s[i])]

\* sub in s
StrContains(s, sub) ==
    \E i \in 0..(Len(s) - Len(sub)) :
        \A j \in DOMAIN sub : s[i + j] = sub[j]

\* a string of n characters c
StrOf(c, n) == [i \in 1..n |-> c]

---------------------------------------------------------------------------
(* Snapshot 06: items_db, ids computed from the number of items *)

MinNameLength == 3
MaxNameLength == 50
MaxDescriptionLength == 300
MaxPrice == 100000
MinTags == 1
MaxTags == 5

\* the number of items the model lets the store of snapshot 06 hold
MaxItems06 == 2

\* name_must_not_be_admin: "admin" in v.lower()
NameIsAdmin(v) == StrContains(StrLower(v), <<"a", "d", "m", "i", "n">>)

\* the Field constraints and the validator of Item, on a request body
\* (a JSON object: the fields it has)
ItemValidTypesOnly(body) ==
    "name" \in DOMAIN body /\ "price" \in DOMAIN body
ItemValid(body) ==
    /\ "name" \in DOMAIN body
    /\ Len(body.name) >= MinNameLength
    /\ Len(body.name) <= MaxNameLength
    /\ ~NameIsAdmin(body.name)
    /\ "description" \in DOMAIN body =>
           (body.description # None =>
                Len(body.description[1]) <= MaxDescriptionLength)
    /\ "price" \in DOMAIN body
    /\ body.price > 0
    /\ body.price <= MaxPrice
    /\ "tax" \in DOMAIN body => (body.tax # None => body.tax[1] > 0)
    /\ "tags" \in DOMAIN body =>
           (Len(body.tags) >= MinTags /\ Len(body.tags) <= MaxTags)

\* the Item built from a valid body, as item.model_dump() gives it: the
\* defaults filled in, the name as the validator returns it
ItemDump(body) ==
    [name |-> StrTitle(body.name),
     description |->
         IF "description" \in DOMAIN body THEN body.description ELSE None,
     price |-> body.price,
     tax |-> IF "tax" \in DOMAIN body THEN body.tax ELSE None,
     tags |-> IF "tags" \in DOMAIN body THEN body.tags ELSE <<>>]

Key == <<"k", "e", "y">>
GamingKeyboard == <<"g", "a", "m", "i", "n", "g", " ", "k", "E", "Y">>

\* the request bodies of POST /items/
ValidBodies06 ==
    {[name |-> Key, price |-> 75],
     [name |-> GamingKeyboard, price |-> MaxPrice,
      description |-> Some(StrOf("d", MaxDescriptionLength)),
      tax |-> Some(1), tags |-> <<"a", "b", "c", "d", "e">>]}

InvalidBodies06 ==
    {[name |-> <<"k", "e">>, price |-> 75],
     [name |-> StrOf("x", MaxNameLength + 1), price |-> 75],
     [name |-> <<"m", "y", " ", "A", "d", "M", "i", "n">>, price |-> 75],
     [name |-> Key, price |-> 0],
     [name |-> Key, price |-> MaxPrice + 1],
     [name |-> Key, price |-> 75,
      description |-> Some(StrOf("d", MaxDescriptionLength + 1))],
     [name |-> Key, price |-> 75, tax |-> Some(0)],
     [name |-> Key, price |-> 75, tags |-> <<>>],
     [name |-> Key, price |-> 75,
      tags |-> <<"a", "b", "c", "d", "e", "f">>],
     [name |-> Key],
     [price |-> 75]}

Bodies06 == ValidBodies06 \cup InvalidBodies06

Init06 ==
    /\ items_db = <<>>
    /\ item_next_id = 0
    /\ fake_users_db = <<>>
    /\ fake_items_db = <<>>

\* RequestValidationError: the default handler answers 422
RequestValidationError(status_code) ==
    [status |-> status_code, body |-> [detail |-> "validation error"]]

\* POST /items/ : the framework validates the body as Item and calls the
\* handler, or answers 422 without calling it
create_item06_call(t) ==
    /\ snapshot = "06"
    /\ running = 0 /\ pc[t] = "call" /\ req[t].op = "create_item"
    /\ IF ItemValid(req[t].body)
       THEN /\ Len(items_db) < MaxItems06
            /\ Start(t, "create_item", "create06_id",
                     [op |-> "create_item", item |-> ItemDump(req[t].body)])
       ELSE Finish(t, RequestValidationError(422))
    /\ UNCHANGED <<snapshot, env_vars, store_vars, history_vars>>

\* item_id = len(items_db) + 1
create_item06_id_from_zero(t) ==
    /\ snapshot = "06" /\ pc[t] = "create06_id" /\ CanRun(t)
    /\ local' = [local EXCEPT ![t] =
                   [set |-> TRUE, item_id |-> Len(items_db)]]
    /\ Goto(t, "create06_id", "create06_store")
    /\ UNCHANGED <<snapshot, env_vars, store_vars, history_vars>>
create_item06_id(t) ==
    /\ snapshot = "06" /\ pc[t] = "create06_id" /\ CanRun(t)
    /\ local' = [local EXCEPT ![t] =
                   [set |-> TRUE, item_id |-> Len(items_db) + 1]]
    /\ Goto(t, "create06_id", "create06_store")
    /\ UNCHANGED <<snapshot, env_vars, store_vars, history_vars>>

\* items_db[item_id] = item.model_dump()
create_item06_store(t) ==
    /\ snapshot = "06" /\ pc[t] = "create06_store" /\ CanRun(t)
    /\ items_db' = DictSet(items_db, local[t].item_id, req[t].item)
    /\ assigned' = Append(assigned, local[t].item_id)
    /\ created' = Append(created, req[t].item)
    /\ Goto(t, "create06_store", "create06_return")
    /\ UNCHANGED <<snapshot, env_vars, item_next_id, fake_users_db, fake_items_db,
                   local, deleted, n_deleted>>

\* {"item_id": item_id, **items_db[item_id]}
WithItemIdDefaultTags(item_id, item) ==
    [item_id |-> item_id, name |-> item.name,
     description |-> item.description, price |-> item.price,
     tax |-> item.tax, tags |-> <<>>]
WithItemId(item_id, item) ==
    [item_id |-> item_id, name |-> item.name,
     description |-> item.description, price |-> item.price,
     tax |-> item.tax, tags |-> item.tags]

\* return {"item_id": item_id, **items_db[item_id]}  (status_code=201)
create_item06_return(t) ==
    /\ snapshot = "06" /\ pc[t] = "create06_return" /\ CanRun(t)
    /\ IF DictHas(items_db, local[t].item_id)
       THEN Finish(t, [status |-> 201,
                       body |-> WithItemId(local[t].item_id,
                                    DictGet(items_db, local[t].item_id))])
       ELSE Finish(t, [status |-> 500, body |-> [detail |-> "KeyError"]])
    /\ UNCHANGED <<snapshot, env_vars, store_vars, history_vars>>

\* the item_id path parameters of GET /items/{item_id}
PathIds06 == 1..(MaxItems06 + 1)

\* GET /items/{item_id}
read_item06_call(t) ==
    /\ snapshot = "06"
    /\ \E item_id \in PathIds06 :
         Start(t, "read_item", "read06_check",
               [op |-> "read_item", item_id |-> item_id])
    /\ UNCHANGED <<snapshot, env_vars, store_vars, history_vars>>

\* if item_id not in items_db: raise HTTPException(404)
read_item06_check(t) ==
    /\ snapshot = "06" /\ pc[t] = "read06_check" /\ CanRun(t)
    /\ IF DictHas(items_db, req[t].item_id)
       THEN Goto(t, "read06_check", "read06_return")
            /\ UNCHANGED local
       ELSE Finish(t, HTTPException(404, "Item not found"))
    /\ UNCHANGED <<snapshot, env_vars, store_vars, history_vars>>

\* return {"item_id": item_id, **items_db[item_id]}
read_item06_return(t) ==
    /\ snapshot = "06" /\ pc[t] = "read06_return" /\ CanRun(t)
    /\ IF DictHas(items_db, req[t].item_id)
       THEN Finish(t, [status |-> 200,
                       body |-> WithItemId(req[t].item_id,
                                    DictGet(items_db, req[t].item_id))])
       ELSE Finish(t, [status |-> 500, body |-> [detail |-> "KeyError"]])
    /\ UNCHANGED <<snapshot, env_vars, store_vars, history_vars>>

\* the requests: POST /items/ with a body, GET /items/{item_id}
Requests06 ==
    {[op |-> "create_item", body |-> b] : b \in Bodies06}
        \cup {[op |-> "read_item"]}

request06(t) ==
    /\ snapshot = "06"
    /\ \E r \in Requests06 : Receive(t, r)
    /\ UNCHANGED <<snapshot, env_vars, store_vars, history_vars>>

Next06 ==
    \E t \in Tasks :
        \/ request06(t)
        \/ create_item06_call(t)
        \/ create_item06_id(t)
        \/ create_item06_store(t)
        \/ create_item06_return(t)
        \/ read_item06_call(t)
        \/ read_item06_check(t)
        \/ read_item06_return(t)

---------------------------------------------------------------------------
(* Snapshot 09: the RequestValidationError handler *)

\* items_db = {1: {"name": "Keyboard"}, 2: {"name": "Mouse"}}
SeedItems09 == <<Entry(1, [name |-> "Keyboard"]),
                 Entry(2, [name |-> "Mouse"])>>

Init09 ==
    /\ items_db = SeedItems09
    /\ item_next_id = 0
    /\ fake_users_db = <<>>
    /\ fake_items_db = <<>>

\* value: int = Field(gt=10)
MinValueExclusive == 10

\* the request bodies of POST /validate/
Bodies09 == {[value |-> MinValueExclusive], [value |-> MinValueExclusive + 1],
             [value |-> MinValueExclusive + 2], [other |-> 0]}

InputDataValid(body) ==
    "value" \in DOMAIN body /\ body.value > MinValueExclusive

\* validation_exception_handler: JSONResponse(status_code=400, ...)
validation_exception_handler ==
    [status |-> 400, body |-> [message |-> "Invalid input provided"]]

\* POST /validate/ : the framework validates the body as InputData and
\* calls the handler, or raises RequestValidationError without calling it
validate_endpoint_call(t) ==
    /\ snapshot = "09"
    /\ running = 0 /\ pc[t] = "call" /\ req[t].op = "validate_endpoint"
    /\ IF InputDataValid(req[t].body)
       THEN Start(t, "validate_endpoint", "validate_return",
                  [op |-> "validate_endpoint", data |-> req[t].body])
       ELSE Finish(t, validation_exception_handler)
    /\ UNCHANGED <<snapshot, env_vars, store_vars, history_vars>>

\* return {"message": "Data is valid!", "received_value": data.value}
validate_endpoint_return(t) ==
    /\ snapshot = "09" /\ pc[t] = "validate_return" /\ CanRun(t)
    /\ Finish(t, [status |-> 200,
                  body |-> [message |-> "Data is valid!",
                            received_value |-> req[t].data.value]])
    /\ UNCHANGED <<snapshot, env_vars, store_vars, history_vars>>

PathIds09 == 1..(Len(SeedItems09) + 1)

\* GET /items/{item_id}
read_item09_call(t) ==
    /\ snapshot = "09"
    /\ \E item_id \in PathIds09 :
         Start(t, "read_item", "read09_check",
               [op |-> "read_item", item_id |-> item_id])
    /\ UNCHANGED <<snapshot, env_vars, store_vars, history_vars>>

\* if item_id not in items_db: raise HTTPException(404)
read_item09_check(t) ==
    /\ snapshot = "09" /\ pc[t] = "read09_check" /\ CanRun(t)
    /\ IF DictHas(items_db, req[t].item_id)
       THEN Goto(t, "read09_check", "read09_return")
            /\ UNCHANGED local
       ELSE Finish(t, HTTPException(404, "Item not found"))
    /\ UNCHANGED <<snapshot, env_vars, store_vars, history_vars>>

\* return items_db[item_id]
read_item09_return(t) ==
    /\ snapshot = "09" /\ pc[t] = "read09_return" /\ CanRun(t)
    /\ IF DictHas(items_db, req[t].item_id)
       THEN Finish(t, [status |-> 200,
                       body |-> DictGet(items_db, req[t].item_id)])
       ELSE Finish(t, [status |-> 500, body |-> [detail |-> "KeyError"]])
    /\ UNCHANGED <<snapshot, env_vars, store_vars, history_vars>>

\* the requests: POST /validate/ with a body, GET /items/{item_id}
Requests09 ==
    {[op |-> "validate_endpoint", body |-> b] : b \in Bodies09}
        \cup {[op |-> "read_item"]}

request09(t) ==
    /\ snapshot = "09"
    /\ \E r \in Requests09 : Receive(t, r)
    /\ UNCHANGED <<snapshot, env_vars, store_vars, history_vars>>

Next09 ==
    \E t \in Tasks :
        \/ request09(t)
        \/ validate_endpoint_call(t)
        \/ validate_endpoint_return(t)
        \/ read_item09_call(t)
        \/ read_item09_check(t)
        \/ read_item09_return(t)

---------------------------------------------------------------------------
(* Snapshot 10: response models *)

\* the fields of UserOut and of ItemPublic
UserOutFields == {"username", "email", "full_name"}
ItemPublicFields == {"name", "price"}

\* fake_items_db = {1: ItemInternal(...), 2: ..., 3: ...}  (prices in tenths)
SeedItems10 ==
    <<Entry(1, [name |-> "Keyboard", price |-> 750, owner_id |-> 1,
                secret_code |-> "abc"]),
      Entry(2, [name |-> "Mouse", price |-> 255, owner_id |-> 1,
                secret_code |-> "def"]),
      Entry(3, [name |-> "Monitor", price |-> 3000, owner_id |-> 2,
                secret_code |-> "ghi"])>>

Init10 ==
    /\ items_db = <<>>
    /\ item_next_id = 0
    /\ fake_users_db = <<>>
    /\ fake_items_db = SeedItems10

\* the validated bodies of POST /users/ (UserIn)
Usernames10 == {"alice", "bob"}
Passwords10 == {"pw1", "pw2"}
Users10 ==
    {[username |-> u, password |-> p, email |-> "user@example.com",
      full_name |-> f] :
        u \in Usernames10, p \in Passwords10, f \in {None, Some("Full Name")}}

\* POST /users/
create_user_call(t) ==
    /\ snapshot = "10"
    /\ \E user \in Users10 :
         Start(t, "create_user", "create_user_store",
               [op |-> "create_user", user |-> user])
    /\ UNCHANGED <<snapshot, env_vars, store_vars, history_vars>>

\* fake_users_db[user.username] = user
create_user_store(t) ==
    /\ snapshot = "10" /\ pc[t] = "create_user_store" /\ CanRun(t)
    /\ fake_users_db' = DictSet(fake_users_db, req[t].user.username,
                                req[t].user)
    /\ Goto(t, "create_user_store", "create_user_return")
    /\ UNCHANGED <<snapshot, env_vars, items_db, item_next_id, fake_items_db, local,
                   history_vars>>

\* return user  (response_model=UserOut, status_code=201)
create_user_return(t) ==
    /\ snapshot = "10" /\ pc[t] = "create_user_return" /\ CanRun(t)
    /\ Finish(t, [status |-> 201,
                  body |-> ResponseModel(UserOutFields, req[t].user)])
    /\ UNCHANGED <<snapshot, env_vars, store_vars, history_vars>>

\* GET /user/{username}
read_user_call(t) ==
    /\ snapshot = "10"
    /\ \E username \in Usernames10 :
         Start(t, "read_user", "read_user_check",
               [op |-> "read_user", username |-> username])
    /\ UNCHANGED <<snapshot, env_vars, store_vars, history_vars>>

\* if username not in fake_users_db: raise HTTPException(404)
\* user_in_db = fake_users_db[username]
read_user_check(t) ==
    /\ snapshot = "10" /\ pc[t] = "read_user_check" /\ CanRun(t)
    /\ IF DictHas(fake_users_db, req[t].username)
       THEN /\ local' = [local EXCEPT ![t] =
                           [set |-> TRUE,
                            user_in_db |->
                                DictGet(fake_users_db, req[t].username)]]
            /\ Goto(t, "read_user_check", "read_user_return")
       ELSE Finish(t, HTTPException(404, "User not found"))
    /\ UNCHANGED <<snapshot, env_vars, store_vars, history_vars>>

\* return user_in_db  (response_model=UserOut)
read_user_return(t) ==
    /\ snapshot = "10" /\ pc[t] = "read_user_return" /\ CanRun(t)
    /\ Finish(t, [status |-> 200,
                  body |-> ResponseModel(UserOutFields, local[t].user_in_db)])
    /\ UNCHANGED <<snapshot, env_vars, store_vars, history_vars>>

\* GET /items/ : internal_items_list = list(fake_items_db.values())
read_items_call(t) ==
    /\ snapshot = "10"
    /\ Start(t, "read_items", "read_items_list", [op |-> "read_items"])
    /\ UNCHANGED <<snapshot, env_vars, store_vars, history_vars>>

read_items_list(t) ==
    /\ snapshot = "10" /\ pc[t] = "read_items_list" /\ CanRun(t)
    /\ local' = [local EXCEPT ![t] =
                   [set |-> TRUE,
                    internal_items_list |-> DictValues(fake_items_db)]]
    /\ Goto(t, "read_items_list", "read_items_return")
    /\ UNCHANGED <<snapshot, env_vars, store_vars, history_vars>>

\* response_model=List[M]: every element as M
ResponseModelList(fields, values) ==
    [i \in DOMAIN values |-> ResponseModel(fields, values[i])]

\* return internal_items_list  (response_model=List[ItemPublic])
read_items_return(t) ==
    /\ snapshot = "10" /\ pc[t] = "read_items_return" /\ CanRun(t)
    /\ Finish(t, [status |-> 200,
                  body_array |->
                      ResponseModelList(ItemPublicFields,
                                        local[t].internal_items_list)])
    /\ UNCHANGED <<snapshot, env_vars, store_vars, history_vars>>

PathIds10 == 1..(Len(SeedItems10) + 1)

\* GET /items/{item_id}
read_single_item_call(t) ==
    /\ snapshot = "10"
    /\ \E item_id \in PathIds10 :
         Start(t, "read_single_item", "read_single_check",
               [op |-> "read_single_item", item_id |-> item_id])
    /\ UNCHANGED <<snapshot, env_vars, store_vars, history_vars>>

\* if item_id not in fake_items_db: raise HTTPException(404)
\* internal_item = fake_items_db[item_id]
read_single_item_check(t) ==
    /\ snapshot = "10" /\ pc[t] = "read_single_check" /\ CanRun(t)
    /\ IF DictHas(fake_items_db, req[t].item_id)
       THEN /\ local' = [local EXCEPT ![t] =
                           [set |-> TRUE,
                            internal_item |->
                                DictGet(fake_items_db, req[t].item_id)]]
            /\ Goto(t, "read_single_check", "read_single_return")
       ELSE Finish(t, HTTPException(404, "Item not found"))
    /\ UNCHANGED <<snapshot, env_vars, store_vars, history_vars>>

\* return internal_item  (response_model=ItemPublic)
read_single_item_return(t) ==
    /\ snapshot = "10" /\ pc[t] = "read_single_return" /\ CanRun(t)
    /\ Finish(t, [status |-> 200,
                  body |-> ResponseModel(ItemPublicFields,
                                         local[t].internal_item)])
    /\ UNCHANGED <<snapshot, env_vars, store_vars, history_vars>>

Routes10 == {"create_user", "read_user", "read_items", "read_single_item"}

request10(t) ==
    /\ snapshot = "10"
    /\ \E op \in Routes10 : Receive(t, [op |-> op])
    /\ UNCHANGED <<snapshot, env_vars, store_vars, history_vars>>

Next10 ==
    \E t \in Tasks :
        \/ request10(t)
        \/ create_user_call(t)
        \/ create_user_store(t)
        \/ create_user_return(t)
        \/ read_user_call(t)
        \/ read_user_check(t)
        \/ read_user_return(t)
        \/ read_items_call(t)
        \/ read_items_list(t)
        \/ read_items_return(t)
        \/ read_single_item_call(t)
        \/ read_single_item_check(t)
        \/ read_single_item_return(t)

---------------------------------------------------------------------------
(* posixpath, on strings as sequences of characters *)

\* s.startswith(prefix)
StartsWith(s, prefix) ==
    Len(prefix) <= Len(s) /\ SubSeq(s, 1, Len(prefix)) = prefix

\* p.rfind("/") + 1
LastSlash(p) ==
    IF \E i \in DOMAIN p : p[i] = "/"
    THEN CHOOSE i \in DOMAIN p :
             p[i] = "/" /\ \A j \in DOMAIN p : p[j] = "/" => j <= i
    ELSE 0

\* os.path.basename(p)
basename(p) == SubSeq(p, LastSlash(p) + 1, Len(p))

\* os.path.join(a, b)
join(a, b) ==
    IF StartsWith(b, <<"/">>) THEN b
    ELSE IF a = <<>> \/ a[Len(a)] = "/" THEN a \o b
    ELSE a \o <<"/">> \o b

\* p.split("/")
RECURSIVE Split(_)
Split(p) ==
    IF \E i \in DOMAIN p : p[i] = "/"
    THEN LET i == CHOOSE i \in DOMAIN p :
                      p[i] = "/" /\ \A j \in 1..(i - 1) : p[j] # "/"
         IN  <<SubSeq(p, 1, i - 1)>> \o Split(SubSeq(p, i + 1, Len(p)))
    ELSE <<p>>

\* the loop of normpath over the components: "" and "." are dropped, ".."
\* removes the component before it
RECURSIVE NormComps(_, _, _)
NormComps(comps, new_comps, initial_slashes) ==
    IF comps = <<>> THEN new_comps
    ELSE LET comp == Head(comps)
             rest == Tail(comps)
         IN  IF comp = <<>> \/ comp = <<".">>
             THEN NormComps(rest, new_comps, initial_slashes)
             ELSE IF \/ comp # <<".", ".">>
                     \/ (initial_slashes = 0 /\ new_comps = <<>>)
                     \/ (new_comps # <<>>
                            /\ new_comps[Len(new_comps)] = <<".", ".">>)
             THEN NormComps(rest, Append(new_comps, comp), initial_slashes)
             ELSE IF new_comps # <<>>
             THEN NormComps(rest, SubSeq(new_comps, 1, Len(new_comps) - 1),
                            initial_slashes)
             ELSE NormComps(rest, new_comps, initial_slashes)

\* "/".join(comps)
RECURSIVE JoinSlash(_)
JoinSlash(comps) ==
    IF comps = <<>> THEN <<>>
    ELSE IF Len(comps) = 1 THEN comps[1]
    ELSE comps[1] \o <<"/">> \o JoinSlash(Tail(comps))

\* os.path.normpath(p)
normpath(p) ==
    IF p = <<>> THEN <<".">>
    ELSE LET initial_slashes ==
                 IF ~StartsWith(p, <<"/">>) THEN 0
                 ELSE IF StartsWith(p, <<"/", "/">>)
                         /\ ~StartsWith(p, <<"/", "/", "/">>) THEN 2
                 ELSE 1
             joined == JoinSlash(NormComps(Split(p), <<>>, initial_slashes))
             path == StrOf("/", initial_slashes) \o joined
         IN  IF path = <<>> THEN <<".">> ELSE path

\* os.path.abspath(p): relative to the working directory of the process
abspath(p) ==
    normpath(IF StartsWith(p, <<"/">>) THEN p ELSE join(cwd, p))

\* os.path.isfile(p)
isfile(p) == abspath(p) \in DOMAIN disk

---------------------------------------------------------------------------
(* Snapshot 15: file downloads *)

\* DOWNLOAD_DIR = "./downloadables/"
DOWNLOAD_DIR == <<".", "/", "d", "o", "w", "n", "l", "o", "a", "d", "a", "b",
                  "l", "e", "s", "/">>

\* the working directories the process is started in
WorkingDirs == {<<"/">>, <<"/", "a", "p", "p">>}

ATxt == <<"a", ".", "t", "x", "t">>
BBin == <<"b", ".", "b", "i", "n">>
CTxt == <<"c", ".", "t", "x", "t">>
DotDot == <<".", ".">>

\* the file_name path parameters of the requests: a path segment holds no
\* "/"; a.txt and b.bin are files of the download directory
FileNames15 == {ATxt, BBin, CTxt, DotDot}

\* the download directory holds a.txt and b.bin
Init15 ==
    /\ items_db = <<>>
    /\ item_next_id = 0
    /\ fake_users_db = <<>>
    /\ fake_items_db = <<>>
    /\ cwd \in WorkingDirs
    /\ disk = [p \in {abspath(join(DOWNLOAD_DIR, ATxt)),
                      abspath(join(DOWNLOAD_DIR, BBin))} |-> <<"data">>]
    /\ clock = 0

\* mimetypes.guess_type(path)[0], by the extension of the path
guess_type(path) ==
    IF Len(path) >= 4 /\ SubSeq(path, Len(path) - 3, Len(path))
                             = <<".", "t", "x", "t">>
    THEN Some("text/plain")
    ELSE None

\* FileResponse(path, filename, media_type): the file at path is sent
FileResponse(path, filename, media_type) ==
    [status |-> 200, path |-> path, filename |-> filename,
     media_type |-> media_type, content |-> disk[abspath(path)]]

\* the test of the handlers on file_path
InsideDownloadDir(file_path) ==
    StartsWith(file_path, abspath(DOWNLOAD_DIR))

\* GET /download/basic/{file_name}
download_basic_call(t) ==
    /\ snapshot = "15"
    /\ \E file_name \in FileNames15 :
         Start(t, "download_basic", "basic_path",
               [op |-> "download_basic", file_name |-> file_name])
    /\ UNCHANGED <<snapshot, env_vars, store_vars, history_vars>>

\* safe_base_filename = os.path.basename(file_name)
\* file_path = os.path.join(DOWNLOAD_DIR, safe_base_filename)
download_basic_path(t) ==
    /\ snapshot = "15" /\ pc[t] = "basic_path" /\ CanRun(t)
    /\ LET safe_base_filename == basename(req[t].file_name)
       IN  local' = [local EXCEPT ![t] =
                       [set |-> TRUE,
                        safe_base_filename |-> safe_base_filename,
                        file_path |-> join(DOWNLOAD_DIR, safe_base_filename)]]
    /\ Goto(t, "basic_path", "basic_isfile")
    /\ UNCHANGED <<snapshot, env_vars, store_vars, history_vars>>

\* if not os.path.isfile(file_path): raise HTTPException(404)
download_basic_isfile(t) ==
    /\ snapshot = "15" /\ pc[t] = "basic_isfile" /\ CanRun(t)
    /\ IF isfile(local[t].file_path)
       THEN Goto(t, "basic_isfile", "basic_serve")
            /\ UNCHANGED local
       ELSE Finish(t, HTTPException(404, "File not found"))
    /\ UNCHANGED <<snapshot, env_vars, store_vars, history_vars>>

\* if not file_path.startswith(os.path.abspath(DOWNLOAD_DIR)):
\*     raise HTTPException(403)
\* return FileResponse(path=file_path)
download_basic_serve(t) ==
    /\ snapshot = "15" /\ pc[t] = "basic_serve" /\ CanRun(t)
    /\ IF ~InsideDownloadDir(local[t].file_path)
       THEN Finish(t, HTTPException(403, "Access denied"))
       ELSE Finish(t, FileResponse(local[t].file_path, None, None))
    /\ UNCHANGED <<snapshot, env_vars, store_vars, history_vars>>

\* GET /download/custom/{file_name}
download_custom_call(t) ==
    /\ snapshot = "15"
    /\ \E file_name \in FileNames15 :
         Start(t, "download_custom", "custom_path",
               [op |-> "download_custom", file_name |-> file_name])
    /\ UNCHANGED <<snapshot, env_vars, store_vars, history_vars>>

\* safe_base_filename = os.path.basename(file_name)
\* file_path = os.path.join(DOWNLOAD_DIR, safe_base_filename)
download_custom_path(t) ==
    /\ snapshot = "15" /\ pc[t] = "custom_path" /\ CanRun(t)
    /\ LET safe_base_filename == basename(req[t].file_name)
       IN  local' = [local EXCEPT ![t] =
                       [set |-> TRUE,
                        safe_base_filename |-> safe_base_filename,
                        file_path |-> join(DOWNLOAD_DIR, safe_base_filename)]]
    /\ Goto(t, "custom_path", "custom_isfile")
    /\ UNCHANGED <<snapshot, env_vars, store_vars, history_vars>>

\* if not os.path.isfile(file_path): raise HTTPException(404)
download_custom_isfile(t) ==
    /\ snapshot = "15" /\ pc[t] = "custom_isfile" /\ CanRun(t)
    /\ IF isfile(local[t].file_path)
       THEN Goto(t, "custom_isfile", "custom_serve")
            /\ UNCHANGED local
       ELSE Finish(t, HTTPException(404, "File not found"))
    /\ UNCHANGED <<snapshot, env_vars, store_vars, history_vars>>

\* if not file_path.startswith(os.path.abspath(DOWNLOAD_DIR)):
\*     raise HTTPException(403)
\* media_type, _ = mimetypes.guess_type(file_path)
\* if media_type is None: media_type = 'application/octect-stream'
\* download_filename = f"downloaded_{safe_base_filename}"
\* return FileResponse(path=file_path, filename=..., media_type=...)
download_custom_serve(t) ==
    /\ snapshot = "15" /\ pc[t] = "custom_serve" /\ CanRun(t)
    /\ IF ~InsideDownloadDir(local[t].file_path)
       THEN Finish(t, HTTPException(403, "Access denied"))
       ELSE LET guessed == guess_type(local[t].file_path)
                media_type == IF guessed = None
                              THEN Some("application/octect-stream")
                              ELSE guessed
                download_filename ==
                    <<"d", "o", "w", "n", "l", "o", "a", "d", "e", "d", "_">>
                        \o local[t].safe_base_filename
            IN  Finish(t, FileResponse(local[t].file_path,
                                       Some(download_filename), media_type))
    /\ UNCHANGED <<snapshot, env_vars, store_vars, history_vars>>

Routes15 == {"download_basic", "download_custom"}

request15(t) ==
    /\ snapshot = "15"
    /\ \E op \in Routes15 : Receive(t, [op |-> op])
    /\ UNCHANGED <<snapshot, env_vars, store_vars, history_vars>>

Next15 ==
    \E t \in Tasks :
        \/ request15(t)
        \/ download_basic_call(t)
        \/ download_basic_path(t)
        \/ download_basic_isfile(t)
        \/ download_basic_serve(t)
        \/ download_custom_call(t)
        \/ download_custom_path(t)
        \/ download_custom_isfile(t)
        \/ download_custom_serve(t)


---------------------------------------------------------------------------
(* Snapshot 14: file uploads.  A file content is a sequence of chunks of   *)
(* 1 MB, the unit file.read(1024 * 1024) returns and out_file.write writes *)

\* UPLOAD_DIR = "./uploads"
UPLOAD_DIR == <<".", "/", "u", "p", "l", "o", "a", "d", "s">>

\* "uploaded_file"
UploadedFile == <<"u", "p", "l", "o", "a", "d", "e", "d", "_", "f", "i", "l",
                  "e">>

\* str(n) of a one-digit number
Digits == <<"0", "1", "2", "3", "4", "5", "6", "7", "8", "9">>
StrInt(n) == <<Digits[n + 1]>>

\* the uploads of the requests (UploadFile: filename, content_type, file):
\* two with the base name a.txt and one whose name is the upload directory
\* itself, which cannot be opened for writing
UploadA == [filename |-> ATxt, content_type |-> "text/plain",
            content |-> <<"x1", "x2">>]
UploadDA == [filename |-> <<"d", "/">> \o ATxt, content_type |-> "text/plain",
             content |-> <<"y1">>]
UploadDot == [filename |-> <<".">>, content_type |-> "text/plain",
              content |-> <<"y1">>]

Uploads14 == {UploadA, UploadDA, UploadDot}

\* the files lists of POST /files/upload-multiple/
FileLists14 == {<<UploadDA>>, <<UploadDot, UploadDA>>,
                <<UploadDA, UploadDot, UploadDA>>}

\* os.makedirs(UPLOAD_DIR, exist_ok=True): the directory exists, no file yet
Init14 ==
    /\ items_db = <<>>
    /\ item_next_id = 0
    /\ fake_users_db = <<>>
    /\ fake_items_db = <<>>
    /\ cwd = <<"/", "a", "p", "p">>
    /\ disk = <<>>
    /\ clock = 0

\* the directories: the upload directory and the directories above it
isdir(p) == abspath(p) \in {abspath(UPLOAD_DIR), abspath(<<".">>), <<"/">>}

\* open(p, 'wb'): the file is created, or cut to length 0
Truncate(p) ==
    [q \in DOMAIN disk \cup {abspath(p)} |->
        IF q = abspath(p) THEN <<>> ELSE disk[q]]

\* the content c after a write of chunk at offset pos (in chunks) of the
\* writing handle; the gap a write beyond the end leaves reads as zeros
WriteAt(c, pos, chunk) ==
    [i \in 1..(IF Len(c) > pos + 1 THEN Len(c) ELSE pos + 1) |->
        IF i = pos + 1 THEN chunk
        ELSE IF i <= Len(c) THEN c[i]
        ELSE "zeros"]

\* out_file.write(content) by a handle of the file p at offset pos
Write(p, pos, chunk) ==
    [q \in DOMAIN disk \cup {abspath(p)} |->
        IF q = abspath(p)
        THEN WriteAt(IF q \in DOMAIN disk THEN disk[q] ELSE <<>>, pos, chunk)
        ELSE disk[q]]

\* the handler's locals when it has computed its destination
Opening(safe_filename, destination, more) ==
    [set |-> TRUE, safe_filename |-> safe_filename,
     destination |-> destination, file_pos |-> 0, out_pos |-> 0,
     content |-> "", more |-> more]

\* POST /files/upload-single/
upload_single_file_call(t) ==
    /\ snapshot = "14"
    /\ \E file \in Uploads14 :
         Start(t, "upload_single_file", "single_path",
               [op |-> "upload_single_file", file |-> file])
    /\ UNCHANGED <<snapshot, env_vars, store_vars, history_vars>>

\* safe_filename = os.path.basename(file.filename or "uploaded_file")
\* destination = os.path.join(UPLOAD_DIR, safe_filename)
upload_single_file_path(t) ==
    /\ snapshot = "14" /\ pc[t] = "single_path" /\ CanRun(t)
    /\ LET safe_filename ==
               basename(IF req[t].file.filename # <<>>
                        THEN req[t].file.filename ELSE UploadedFile)
       IN  local' = [local EXCEPT ![t] =
                       Opening(safe_filename,
                               join(UPLOAD_DIR, safe_filename), <<>>)]
    /\ Goto(t, "single_path", "single_open")
    /\ UNCHANGED <<snapshot, env_vars, store_vars, history_vars>>

\* async with aiofiles.open(destination, 'wb') as out_file:
\* (IsADirectoryError when destination is a directory; except: 500)
upload_single_file_open(t) ==
    /\ snapshot = "14" /\ pc[t] = "single_open" /\ CanRun(t)
    /\ IF isdir(local[t].destination)
       THEN /\ Finish(t, HTTPException(500, "Could not save file"))
            /\ disk' = disk
       ELSE /\ disk' = Truncate(local[t].destination)
            /\ Goto(t, "single_open", "single_read")
            /\ UNCHANGED local
    /\ UNCHANGED <<snapshot, cwd, clock, started, store_vars, history_vars>>

\* while content := await file.read(1024 * 1024):
upload_single_file_read(t) ==
    /\ snapshot = "14" /\ pc[t] = "single_read" /\ CanRun(t)
    /\ IF local[t].file_pos < Len(req[t].file.content)
       THEN /\ local' = [local EXCEPT
                  ![t].content = req[t].file.content[local[t].file_pos + 1],
                  ![t].file_pos = local[t].file_pos + 1]
            /\ Goto(t, "single_read", "single_write")
       ELSE /\ local' = [local EXCEPT ![t].content = ""]
            /\ Goto(t, "single_read", "single_close")
    /\ UNCHANGED <<snapshot, env_vars, store_vars, history_vars>>

\* await out_file.write(content)
\* (OSError when the write fails: the file is closed; except: 500)
upload_single_file_write(t) ==
    /\ snapshot = "14" /\ pc[t] = "single_write" /\ CanRun(t)
    /\ \/ /\ disk' = Write(local[t].destination, local[t].out_pos,
                           local[t].content)
          /\ local' = [local EXCEPT ![t].out_pos = local[t].out_pos + 1]
          /\ Goto(t, "single_write", "single_read")
       \/ /\ Finish(t, HTTPException(500, "Could not save file"))
          /\ disk' = disk
    /\ UNCHANGED <<snapshot, cwd, clock, started, store_vars, history_vars>>

\* the end of async with: out_file is closed
upload_single_file_close(t) ==
    /\ snapshot = "14" /\ pc[t] = "single_close" /\ CanRun(t)
    /\ Goto(t, "single_close", "single_return")
    /\ UNCHANGED <<snapshot, env_vars, store_vars, history_vars, local>>

\* return {"filename": ..., "content_type": ..., "save_path": destination}
upload_single_file_return(t) ==
    /\ snapshot = "14" /\ pc[t] = "single_return" /\ CanRun(t)
    /\ Finish(t, [status |-> 200,
                  body |-> [filename |-> req[t].file.filename,
                            content_type |-> req[t].file.content_type,
                            save_path |-> local[t].destination]])
    /\ UNCHANGED <<snapshot, env_vars, store_vars, history_vars>>

\* POST /files/upload-multiple/
upload_multiple_files_call(t) ==
    /\ snapshot = "14"
    /\ \E files \in FileLists14 :
         Start(t, "upload_multiple_files", "multi_init",
               [op |-> "upload_multiple_files", files |-> files])
    /\ UNCHANGED <<snapshot, env_vars, store_vars, history_vars>>

\* the locals of upload_multiple_files between two files: the results so
\* far and the index of the next file of the for loop
Looping(saved_files, i) ==
    [set |-> TRUE, safe_filename |-> <<>>, destination |-> <<>>,
     file_pos |-> 0, out_pos |-> 0, content |-> "",
     more |-> <<[saved_files |-> saved_files, i |-> i]>>]

\* saved_files = []
upload_multiple_files_init(t) ==
    /\ snapshot = "14" /\ pc[t] = "multi_init" /\ CanRun(t)
    /\ local' = [local EXCEPT ![t] = Looping(<<>>, 1)]
    /\ Goto(t, "multi_init", "multi_for")
    /\ UNCHANGED <<snapshot, env_vars, store_vars, history_vars>>

\* for file in files:
\*     safe_filename = os.path.basename(
\*         file.filename or f"uploaded_file_{len(saved_files)}")
\*     destination = os.path.join(UPLOAD_DIR, safe_filename)
upload_multiple_files_for(t) ==
    /\ snapshot = "14" /\ pc[t] = "multi_for" /\ CanRun(t)
    /\ LET saved_files == local[t].more[1].saved_files
           i == local[t].more[1].i
       IN  IF i > Len(req[t].files)
           THEN /\ Goto(t, "multi_for", "multi_return")
                /\ UNCHANGED local
           ELSE LET file == req[t].files[i]
                    safe_filename ==
                        basename(IF file.filename # <<>>
                                 THEN file.filename
                                 ELSE UploadedFile \o <<"_">>
                                          \o StrInt(Len(saved_files)))
                IN  /\ local' = [local EXCEPT ![t] =
                                   Opening(safe_filename,
                                           join(UPLOAD_DIR, safe_filename),
                                           local[t].more)]
                    /\ Goto(t, "multi_for", "multi_open")
    /\ UNCHANGED <<snapshot, env_vars, store_vars, history_vars>>

\* the for loop after the except clause has recorded an error: the next file
AfterExceptStop(i, files) == Len(files) + 1
AfterExcept(i, files) == i + 1

\* except Exception as e:
\*     saved_files.append({"filename": file.filename, "error": str(e)})
Except(t, e) ==
    LET saved_files == local[t].more[1].saved_files
        i == local[t].more[1].i
    IN  Looping(Append(saved_files,
                       [filename |-> req[t].files[i].filename, error |-> e]),
                AfterExcept(i, req[t].files))

\* async with aiofiles.open(destination, 'wb') as out_file:
upload_multiple_files_open(t) ==
    /\ snapshot = "14" /\ pc[t] = "multi_open" /\ CanRun(t)
    /\ IF isdir(local[t].destination)
       THEN /\ local' = [local EXCEPT ![t] = Except(t, "IsADirectoryError")]
            /\ Goto(t, "multi_open", "multi_for")
            /\ disk' = disk
       ELSE /\ disk' = Truncate(local[t].destination)
            /\ Goto(t, "multi_open", "multi_read")
            /\ UNCHANGED local
    /\ UNCHANGED <<snapshot, cwd, clock, started, store_vars, history_vars>>

\* while content := await file.read(1024 * 1024):
upload_multiple_files_read(t) ==
    /\ snapshot = "14" /\ pc[t] = "multi_read" /\ CanRun(t)
    /\ LET file == req[t].files[local[t].more[1].i]
       IN  IF local[t].file_pos < Len(file.content)
           THEN /\ local' = [local EXCEPT
                      ![t].content = file.content[local[t].file_pos + 1],
                      ![t].file_pos = local[t].file_pos + 1]
                /\ Goto(t, "multi_read", "multi_write")
           ELSE /\ local' = [local EXCEPT ![t].content = ""]
                /\ Goto(t, "multi_read", "multi_close")
    /\ UNCHANGED <<snapshot, env_vars, store_vars, history_vars>>

\* await out_file.write(content)  (OSError when the write fails)
upload_multiple_files_write(t) ==
    /\ snapshot = "14" /\ pc[t] = "multi_write" /\ CanRun(t)
    /\ \/ /\ disk' = Write(local[t].destination, local[t].out_pos,
                           local[t].content)
          /\ local' = [local EXCEPT ![t].out_pos = local[t].out_pos + 1]
          /\ Goto(t, "multi_write", "multi_read")
       \/ /\ local' = [local EXCEPT ![t] = Except(t, "OSError")]
          /\ Goto(t, "multi_write", "multi_for")
          /\ disk' = disk
    /\ UNCHANGED <<snapshot, cwd, clock, started, store_vars, history_vars>>

\* the end of async with: out_file is closed
upload_multiple_files_close(t) ==
    /\ snapshot = "14" /\ pc[t] = "multi_close" /\ CanRun(t)
    /\ Goto(t, "multi_close", "multi_saved")
    /\ UNCHANGED <<snapshot, env_vars, store_vars, history_vars, local>>

\* saved_files.append({"filename": file.filename, "save_path": destination})
upload_multiple_files_saved(t) ==
    /\ snapshot = "14" /\ pc[t] = "multi_saved" /\ CanRun(t)
    /\ LET saved_files == local[t].more[1].saved_files
           i == local[t].more[1].i
       IN  local' = [local EXCEPT ![t] =
               Looping(Append(saved_files,
                              [filename |-> req[t].files[i].filename,
                               save_path |-> local[t].destination]),
                       i + 1)]
    /\ Goto(t, "multi_saved", "multi_for")
    /\ UNCHANGED <<snapshot, env_vars, store_vars, history_vars>>

\* return {"message": f"{len(saved_files)} files processed.",
\*         "details": saved_files}
upload_multiple_files_return(t) ==
    /\ snapshot = "14" /\ pc[t] = "multi_return" /\ CanRun(t)
    /\ LET saved_files == local[t].more[1].saved_files
       IN  Finish(t, [status |-> 200,
                      body |-> [message |-> StrInt(Len(saved_files))
                                    \o <<" files processed.">>,
                                details |-> saved_files]])
    /\ UNCHANGED <<snapshot, env_vars, store_vars, history_vars>>

\* a request of POST /files/upload-single/ arrives
request_upload_single(t) ==
    /\ snapshot = "14"
    /\ Receive(t, [op |-> "upload_single_file"])
    /\ UNCHANGED <<snapshot, env_vars, store_vars, history_vars>>

\* a request of POST /files/upload-multiple/ arrives
request_upload_multiple(t) ==
    /\ snapshot = "14"
    /\ Receive(t, [op |-> "upload_multiple_files"])
    /\ UNCHANGED <<snapshot, env_vars, store_vars, history_vars>>

\* the application when its clients use the upload-multiple route only
Next14Multiple ==
    \E t \in Tasks :
        \/ request_upload_multiple(t)
        \/ upload_multiple_files_call(t)
        \/ upload_multiple_files_init(t)
        \/ upload_multiple_files_for(t)
        \/ upload_multiple_files_open(t)
        \/ upload_multiple_files_read(t)
        \/ upload_multiple_files_write(t)
        \/ upload_multiple_files_close(t)
        \/ upload_multiple_files_saved(t)
        \/ upload_multiple_files_return(t)

Next14 ==
    \E t \in Tasks :
        \/ request_upload_single(t)
        \/ request_upload_multiple(t)
        \/ upload_single_file_call(t)
        \/ upload_single_file_path(t)
        \/ upload_single_file_open(t)
        \/ upload_single_file_read(t)
        \/ upload_single_file_write(t)
        \/ upload_single_file_close(t)
        \/ upload_single_file_return(t)
        \/ upload_multiple_files_call(t)
        \/ upload_multiple_files_init(t)
        \/ upload_multiple_files_for(t)
        \/ upload_multiple_files_open(t)
        \/ upload_multiple_files_read(t)
        \/ upload_multiple_files_write(t)
        \/ upload_multiple_files_close(t)
        \/ upload_multiple_files_saved(t)
        \/ upload_multiple_files_return(t)

---------------------------------------------------------------------------
(* Snapshot 07: dependencies.  The framework resolves the dependencies of  *)
(* a route, sub-dependencies first, and then calls the route's function    *)

\* the x_api_key query parameters of the requests
ApiKeys07 == {None, Some("fakeapikey"), Some("FAKEAPIKEY"), Some("")}

\* the q, skip and limit query parameters of the requests
Commons07 ==
    {[q |-> q, skip |-> skip, limit |-> limit] :
        q \in {None, Some("keyboard")}, skip \in {0, 5}, limit \in {100, 10}}

Init07 ==
    /\ items_db = <<>>
    /\ item_next_id = 0
    /\ fake_users_db = <<>>
    /\ fake_items_db = <<>>
    /\ cwd = <<"/">>
    /\ disk = <<>>
    /\ clock = 0

\* GET /items/ and GET /users/ : Depends(common_parameters)
read_commons_call(t) ==
    /\ snapshot = "07"
    /\ \E op \in {"read_items", "read_users"}, params \in Commons07 :
         Start(t, op, "common_parameters",
               [op |-> op, q |-> params.q, skip |-> params.skip,
                limit |-> params.limit])
    /\ UNCHANGED <<snapshot, env_vars, store_vars, history_vars>>

\* return {"q": q, "skip": skip, "limit": limit}
common_parameters(t) ==
    /\ snapshot = "07" /\ pc[t] = "common_parameters" /\ CanRun(t)
    /\ local' = [local EXCEPT ![t] =
                   [set |-> TRUE,
                    commons |-> [q |-> req[t].q, skip |-> req[t].skip,
                                 limit |-> req[t].limit]]]
    /\ Goto(t, "common_parameters", req[t].op)
    /\ UNCHANGED <<snapshot, env_vars, store_vars, history_vars>>

\* return {"message": "Reading items", "params": commons, "data": [...]}
read_items07(t) ==
    /\ snapshot = "07" /\ pc[t] = "read_items" /\ CanRun(t)
    /\ Finish(t, [status |-> 200,
                  body |-> [message |-> "Reading items",
                            params |-> local[t].commons,
                            data |-> <<[item_name |-> "Item 1"],
                                       [item_name |-> "Item 2"]>>]])
    /\ UNCHANGED <<snapshot, env_vars, store_vars, history_vars>>

\* return {"message": "Reading users", "params": commons, "data": [...]}
read_users(t) ==
    /\ snapshot = "07" /\ pc[t] = "read_users" /\ CanRun(t)
    /\ Finish(t, [status |-> 200,
                  body |-> [message |-> "Reading users",
                            params |-> local[t].commons,
                            data |-> <<[user_name |-> "User 1"],
                                       [user_name |-> "User 2"]>>]])
    /\ UNCHANGED <<snapshot, env_vars, store_vars, history_vars>>

\* GET /secure-data/ : Depends(verify_api_key)
read_secure_data_call(t) ==
    /\ snapshot = "07"
    /\ \E x_api_key \in ApiKeys07 :
         Start(t, "read_secure_data", "secure_verify_api_key",
               [op |-> "read_secure_data", x_api_key |-> x_api_key])
    /\ UNCHANGED <<snapshot, env_vars, store_vars, history_vars>>

\* GET /admin-only/ : Depends(verify_admin_access), which has
\* Depends(verify_api_key)
read_admin_data_call(t) ==
    /\ snapshot = "07"
    /\ \E x_api_key \in ApiKeys07 :
         Start(t, "read_admin_data", "admin_verify_api_key",
               [op |-> "read_admin_data", x_api_key |-> x_api_key])
    /\ UNCHANGED <<snapshot, env_vars, store_vars, history_vars>>

\* x_api_key != "fakeapikey"
KeyDiffersWhenGiven(x_api_key) ==
    x_api_key # None /\ x_api_key # Some("fakeapikey")
KeyDiffers(x_api_key) == x_api_key # Some("fakeapikey")

\* verify_api_key: if x_api_key != "fakeapikey": raise HTTPException(403)
\*                 return x_api_key
verify_api_key(t) ==
    /\ snapshot = "07" /\ CanRun(t)
    /\ pc[t] \in {"secure_verify_api_key", "admin_verify_api_key"}
    /\ IF KeyDiffers(req[t].x_api_key)
       THEN Finish(t, HTTPException(403, "Invalid API Key"))
       ELSE /\ local' = [local EXCEPT ![t] =
                           [set |-> TRUE, api_key |-> req[t].x_api_key]]
            /\ Goto(t, pc[t], IF pc[t] = "secure_verify_api_key"
                              THEN "read_secure_data"
                              ELSE "verify_admin_access")
    /\ UNCHANGED <<snapshot, env_vars, store_vars, history_vars>>

\* verify_admin_access: return {"is_admin": True}
verify_admin_access(t) ==
    /\ snapshot = "07" /\ pc[t] = "verify_admin_access" /\ CanRun(t)
    /\ local' = [local EXCEPT ![t] =
                   [set |-> TRUE, api_key |-> local[t].api_key,
                    admin_info |-> [is_admin |-> TRUE]]]
    /\ Goto(t, "verify_admin_access", "read_admin_data")
    /\ UNCHANGED <<snapshot, env_vars, store_vars, history_vars>>

\* return {"message": "This is secure data!", "requester_api_key": api_key}
read_secure_data(t) ==
    /\ snapshot = "07" /\ pc[t] = "read_secure_data" /\ CanRun(t)
    /\ Finish(t, [status |-> 200,
                  body |-> [message |-> "This is secure data!",
                            requester_api_key |-> local[t].api_key]])
    /\ UNCHANGED <<snapshot, env_vars, store_vars, history_vars>>

\* return {"message": "Welcome, Admin", "access_level": admin_info}
read_admin_data(t) ==
    /\ snapshot = "07" /\ pc[t] = "read_admin_data" /\ CanRun(t)
    /\ Finish(t, [status |-> 200,
                  body |-> [message |-> "Welcome, Admin",
                            access_level |-> local[t].admin_info]])
    /\ UNCHANGED <<snapshot, env_vars, store_vars, history_vars>>

Routes07 == {"read_items", "read_users", "read_secure_data",
             "read_admin_data"}

request07(t) ==
    /\ snapshot = "07"
    /\ \E op \in Routes07 : Receive(t, [op |-> op])
    /\ UNCHANGED <<snapshot, env_vars, store_vars, history_vars>>

Next07 ==
    \E t \in Tasks :
        \/ request07(t)
        \/ read_commons_call(t)
        \/ common_parameters(t)
        \/ read_items07(t)
        \/ read_users(t)
        \/ read_secure_data_call(t)
        \/ read_admin_data_call(t)
        \/ verify_api_key(t)
        \/ verify_admin_access(t)
        \/ read_secure_data(t)
        \/ read_admin_data(t)

---------------------------------------------------------------------------
(* Snapshot 08: the timing middleware around CORS and the endpoints.       *)
(* clock is time.time() in tenths of a second                              *)

\* the last reading of the clock in a run
MaxClock == 2

\* time passes, at any point of any request
Tick ==
    /\ snapshot = "08"
    /\ clock < MaxClock
    /\ clock' = clock + 1
    /\ UNCHANGED <<snapshot, cwd, disk, started, store_vars, history_vars,
                   pc, req, local, resp, running>>

\* allow_origins=origins
origins == {"<http://localhost>", "<https://your-frontend-domain.com>"}

\* the Origin headers of the preflight requests
Origins08 == {"<http://localhost>", "http://localhost"}

Init08 ==
    /\ items_db = <<>>
    /\ item_next_id = 0
    /\ fake_users_db = <<>>
    /\ fake_items_db = <<>>
    /\ cwd = <<"/">>
    /\ disk = <<>>
    /\ clock = 0

\* f"{process_time:.4f}" for a time in tenths of a second
Format4f(tenths) ==
    StrInt(tenths \div 10) \o <<".", Digits[(tenths % 10) + 1], "0", "0", "0">>

\* the middleware is called with the request
add_process_time_header_call(t) ==
    /\ snapshot = "08"
    /\ \E op \in {"read_root", "ping", "not_found"} :
         Start(t, op, "mw_start", [op |-> op])
    /\ UNCHANGED <<snapshot, env_vars, store_vars, history_vars>>

\* the same, for an OPTIONS request with Origin and
\* Access-Control-Request-Method headers
add_process_time_header_call_preflight(t) ==
    /\ snapshot = "08"
    /\ \E origin \in Origins08 :
         Start(t, "cors_preflight", "mw_start",
               [op |-> "cors_preflight", origin |-> origin])
    /\ UNCHANGED <<snapshot, env_vars, store_vars, history_vars>>

\* start_time = time.time()
add_process_time_header_start(t) ==
    /\ snapshot = "08" /\ pc[t] = "mw_start" /\ CanRun(t)
    /\ local' = [local EXCEPT ![t] = [set |-> TRUE, start_time |-> clock]]
    /\ started' = [started EXCEPT ![t] = clock]
    /\ Goto(t, "mw_start", "mw_call_next")
    /\ UNCHANGED <<snapshot, cwd, disk, clock, store_vars, history_vars>>

\* response = await call_next(request): the rest of the application runs
\* for the request, the middleware waits for its response
add_process_time_header_call_next(t) ==
    /\ snapshot = "08" /\ pc[t] = "mw_call_next" /\ CanRun(t)
    /\ local' = local
    /\ Goto(t, "mw_call_next",
            IF req[t].op = "ping" THEN "ping_sleep" ELSE req[t].op)
    /\ UNCHANGED <<snapshot, env_vars, store_vars, history_vars>>

\* the endpoint, or the part of the application that answered in its place,
\* hands response r to the middleware
Respond08(t, l, r) ==
    /\ local' = [local EXCEPT ![t] =
                   [set |-> TRUE, start_time |-> local[t].start_time,
                    response |-> r]]
    /\ Goto(t, l, "mw_after")

\* CORSMiddleware answers a preflight request itself
cors_preflight(t) ==
    /\ snapshot = "08" /\ pc[t] = "cors_preflight" /\ CanRun(t)
    /\ Respond08(t, "cors_preflight",
                 IF req[t].origin \in origins
                 THEN [status |-> 200, body |-> "OK", headers |-> <<>>]
                 ELSE [status |-> 400, body |-> "Disallowed CORS origin",
                       headers |-> <<>>])
    /\ UNCHANGED <<snapshot, env_vars, store_vars, history_vars>>

\* no route matches the path
not_found(t) ==
    /\ snapshot = "08" /\ pc[t] = "not_found" /\ CanRun(t)
    /\ Respond08(t, "not_found",
                 [status |-> 404, body |-> [detail |-> "Not Found"],
                  headers |-> <<>>])
    /\ UNCHANGED <<snapshot, env_vars, store_vars, history_vars>>

\* return {"message": "Hello World with Middleware and CORS!"}
read_root(t) ==
    /\ snapshot = "08" /\ pc[t] = "read_root" /\ CanRun(t)
    /\ Respond08(t, "read_root",
                 [status |-> 200,
                  body |-> [message |->
                              "Hello World with Middleware and CORS!"],
                  headers |-> <<>>])
    /\ UNCHANGED <<snapshot, env_vars, store_vars, history_vars>>

\* await asyncio.sleep(0.1)
ping_sleep(t) ==
    /\ snapshot = "08" /\ pc[t] = "ping_sleep" /\ CanRun(t)
    /\ local' = [local EXCEPT ![t] =
                   [set |-> TRUE, start_time |-> local[t].start_time,
                    wake |-> clock + 1]]
    /\ Goto(t, "ping_sleep", "ping_return")
    /\ UNCHANGED <<snapshot, env_vars, store_vars, history_vars>>

\* the sleep is over: return {"message": "pong"}
ping(t) ==
    /\ snapshot = "08" /\ pc[t] = "ping_return" /\ CanRun(t)
    /\ clock >= local[t].wake
    /\ Respond08(t, "ping_return",
                 [status |-> 200, body |-> [message |-> "pong"],
                  headers |-> <<>>])
    /\ UNCHANGED <<snapshot, env_vars, store_vars, history_vars>>

\* the start_time the middleware subtracts: the local of this call
StartTimeOfSomeRequest(t) ==
    LET others == {u \in Tasks \ {t} : "start_time" \in DOMAIN local[u]}
    IN  IF others = {} THEN local[t].start_time
        ELSE local[CHOOSE u \in others : TRUE].start_time
StartTime(t) == local[t].start_time

\* process_time = time.time() - start_time
\* response.headers["X-Process-Time"] = f"{process_time:.4f}"
\* return response
add_process_time_header(t) ==
    /\ snapshot = "08" /\ pc[t] = "mw_after" /\ CanRun(t)
    /\ LET process_time == clock - StartTime(t)
           response == local[t].response
       IN  Finish(t, [status |-> response.status, body |-> response.body,
                      headers |-> [h \in {"X-Process-Time"} |->
                                     Format4f(process_time)]])
    /\ started' = [started EXCEPT ![t] = 0]
    /\ UNCHANGED <<snapshot, cwd, disk, clock, store_vars, history_vars>>

Routes08 == {"read_root", "ping", "not_found", "cors_preflight"}

request08(t) ==
    /\ snapshot = "08"
    /\ \E op \in Routes08 : Receive(t, [op |-> op])
    /\ UNCHANGED <<snapshot, env_vars, store_vars, history_vars>>

Next08 ==
    \/ Tick
    \/ \E t \in Tasks :
        \/ request08(t)
        \/ add_process_time_header_call(t)
        \/ add_process_time_header_call_preflight(t)
        \/ add_process_time_header_start(t)
        \/ add_process_time_header_call_next(t)
        \/ cors_preflight(t)
        \/ not_found(t)
        \/ read_root(t)
        \/ ping_sleep(t)
        \/ ping(t)
        \/ add_process_time_header(t)

---------------------------------------------------------------------------
(* Specifications *)

InitTasks ==
    /\ pc = [t \in Tasks |-> "idle"]
    /\ req = [t \in Tasks |-> NoReq]
    /\ local = [t \in Tasks |-> NoLocal]
    /\ resp = NoResp
    /\ running = 0
    /\ assigned = <<>>
    /\ created = <<>>
    /\ deleted = {}
    /\ n_deleted = 0
    /\ started = [t \in Tasks |-> 0]

\* the stores use no file and no clock
InitEnv ==
    /\ cwd = <<"/">>
    /\ disk = <<>>
    /\ clock = 0

\* a run of any one of the applications
Init ==
    /\ \/ snapshot = "06" /\ Init06
       \/ snapshot = "09" /\ Init09
       \/ snapshot = "10" /\ Init10
       \/ snapshot = "12" /\ Init12
    /\ InitEnv
    /\ InitTasks

Next == Next06 \/ Next09 \/ Next10 \/ Next12

Spec == Init /\ [][Next]_vars

\* a run of the download application
InitApp15 == snapshot = "15" /\ Init15 /\ InitTasks
Spec15 == InitApp15 /\ [][Next15]_vars

\* a run of the upload application
InitApp14 == snapshot = "14" /\ Init14 /\ InitTasks
Spec14 == InitApp14 /\ [][Next14]_vars

\* a run of the upload application with upload-multiple requests only
Spec14Multiple == InitApp14 /\ [][Next14Multiple]_vars

\* a run of the application with dependencies
InitApp07 == snapshot = "07" /\ Init07 /\ InitTasks
Spec07 == InitApp07 /\ [][Next07]_vars

\* a run of the application with the timing middleware
InitApp08 == snapshot = "08" /\ Init08 /\ InitTasks
Spec08 == InitApp08 /\ [][Next08]_vars

---------------------------------------------------------------------------
(* Claims *)

\* the labels at which a handler has found its key present and goes on to
\* access the entry
FoundLabels == {"delete_del", "update_compare", "update_store",
                "update_return"}

\* the labels of the existence checks: of an item id, and all of them
IdCheckLabels == {"delete_check", "update_check", "read06_check",
                  "read09_check", "read_single_check"}
CheckLabels == IdCheckLabels \cup {"read_user_check"}

\* the key written by the latest create
LastAssigned == assigned[Len(assigned)]

\* the id a response body carries, 0 when it carries none
ResponseId(body) ==
    IF "id" \in DOMAIN body THEN body.id
    ELSE IF "item_id" \in DOMAIN body THEN body.item_id
    ELSE 0

\* the record of a response body: its fields but the id
ResponseRecord(body) == [f \in DOMAIN body \ {"id", "item_id"} |-> body[f]]

\* the fields the snapshots declare internal-only
InternalOnlyFields == {"password", "owner_id", "secret_code"}

\* a record without its internal-only fields
Public(v) == [f \in DOMAIN v \ InternalOnlyFields |-> v[f]]

\* the records that differ from v in internal-only fields at most
Variants(v) ==
    IF "password" \in DOMAIN v
    THEN {[v EXCEPT !.password = p] : p \in Passwords10 \cup {"other"}}
    ELSE {[v EXCEPT !.owner_id = o, !.secret_code = c] :
             o \in 1..3, c \in {"abc", "def", "ghi", "other"}}

\* body shows nothing of the internal-only fields of v: it has none of
\* them and is the same for every variant of v
HidesInternal(body, v) ==
    /\ DOMAIN body \cap InternalOnlyFields = {}
    /\ \A w \in Variants(v) : body = Public(w)

\* the dictionary list() reads, and what it holds when the process starts
LiveRecords == IF snapshot = "10" THEN fake_items_db ELSE items_db
SeedRecords ==
    CASE snapshot = "06" -> <<>>
      [] snapshot = "09" -> SeedItems09
      [] snapshot = "10" -> SeedItems10
      [] snapshot = "12" -> SeedItems12

\* what the Field constraints of snapshot 06 say of a stored item
MeetsItemConstraints(item) ==
    /\ Len(item.name) \in MinNameLength..MaxNameLength
    /\ ~StrContains(StrLower(item.name), <<"a", "d", "m", "i", "n">>)
    /\ item.description # None =>
           Len(item.description[1]) <= MaxDescriptionLength
    /\ item.price > 0 /\ item.price <= MaxPrice
    /\ item.tax # None => item.tax[1] > 0
    /\ Len(item.tags) <= MaxTags

\* task t takes the step, and the step ends its request
Ends(t) == pc[t] \notin {"idle", "call"} /\ pc'[t] = "idle"

\* C1: the keys written by successive creates are strictly increasing
\* positive integers, so no key is assigned twice, also when the record of
\* an earlier key was deleted in between.
C1_IdsStrictlyIncreasing ==
    \A i \in DOMAIN assigned :
        /\ assigned[i] > 0
        /\ \A j \in DOMAIN assigned : i < j => assigned[i] < assigned[j]

\* two creates with a delete of the first created record in between
C1_Witness ==
    /\ snapshot = "12"
    /\ Len(assigned) = 2
    /\ assigned[1] \in deleted
    /\ \E t \in Tasks : pc[t] = "create12_info"

\* C2: once a delete of a key has succeeded the key is in no later state of
\* the mapping, and every update or delete of that key that runs later
\* ends with 404.
C2_DeletedStaysAbsent ==
    [][/\ deleted' \cap DictKeys(items_db') = {}
       /\ \A t \in Tasks :
            (pc[t] \in IdCheckLabels /\ req[t].item_id \in deleted /\ Ends(t))
                => resp'.status = 404]_vars

\* a request for a deleted key is answered 404 after a later create
C2_Witness ==
    /\ resp.status = 404
    /\ deleted # {}
    /\ assigned # <<>>
    /\ (PathIds12 \ DictKeys(items_db)) \subseteq deleted

C4_ResponsesHideInternalFields ==
    [][\A t \in Tasks :
         (snapshot = "10" /\ Ends(t) /\ resp'.status \in {200, 201}) =>
            CASE req[t].op = "create_user" ->
                    HidesInternal(resp'.body, req[t].user)
              [] req[t].op = "read_user" ->
                    HidesInternal(resp'.body, local[t].user_in_db)
              [] req[t].op = "read_single_item" ->
                    HidesInternal(resp'.body, local[t].internal_item)
              [] req[t].op = "read_items" ->
                    /\ DOMAIN resp'.body_array =
                           DOMAIN local[t].internal_items_list
                    /\ \A i \in DOMAIN resp'.body_array :
                           HidesInternal(resp'.body_array[i],
                               local[t].internal_items_list[i])]_vars

\* read_user has answered for a user stored with a password
C4_Witness ==
    /\ snapshot = "10"
    /\ resp.status = 200
    /\ "body" \in DOMAIN resp
    /\ "username" \in DOMAIN resp.body
    /\ DictHas(fake_users_db, resp.body.username)
    /\ DictGet(fake_users_db, resp.body.username).password = "pw2"

C6_FailedOperationChangesNothing ==
    [][\A t \in Tasks :
         pc[t] # pc'[t] =>
            /\ (pc'[t] = "idle" /\ resp'.status = 404)
                   => (pc[t] \in CheckLabels /\ UNCHANGED store_vars)
            /\ pc'[t] \in CheckLabels
                   => (pc[t] = "call" /\ UNCHANGED store_vars)
            /\ pc'[t] = "call" => UNCHANGED store_vars]_vars

\* an update or delete of snapshot 12 has failed after the store changed
C6_Witness ==
    /\ snapshot = "12"
    /\ resp.status = 404
    /\ assigned # <<>>
    /\ items_db # SeedItems12

\* C7: whenever no handler is in progress, the keys written by the creates
\* are pairwise distinct, each is a key of the mapping unless it was deleted
\* since, and the counter has advanced by exactly the number of creates.
C7_ConcurrentCreatesDistinct ==
    (snapshot = "12" /\ \A t \in Tasks : pc[t] \in {"idle", "call"}) =>
        /\ \A i, j \in DOMAIN assigned :
               i # j => assigned[i] # assigned[j]
        /\ \A i \in DOMAIN assigned :
               assigned[i] \in DictKeys(items_db) \cup deleted
        /\ item_next_id = InitialNextId12 + Len(assigned)

\* two create requests are in flight at once: one handler is in progress
\* while the other request waits for the loop
C7_TwoCreatesInFlight ==
    \E t, u \in Tasks :
        /\ t # u
        /\ pc[t] = "create12_incr"
        /\ pc[u] = "call" /\ req[u].op = "create_item"
        /\ Len(assigned) = 2

\* C8: a handler that found its key present still finds it present at every
\* later access, whatever other requests are in flight: no access of an
\* absent key (KeyError, 500) and no key recreated by update.
C8_NoNotFoundAfterFound ==
    /\ resp.status # 500
    /\ \A t \in Tasks :
         pc[t] \in FoundLabels => DictHas(items_db, req[t].item_id)

\* an update has found its key while a delete request is in flight
C8_Witness ==
    \E t, u \in Tasks :
        /\ pc[t] = "update_store"
        /\ pc[u] = "call" /\ req[u].op = "delete_item"

\* C9: a request whose body fails validation ends when the framework
\* validates it, with an error response (422, or 400 from the handler of
\* snapshot 09) and the mappings and the counter unchanged; a handler body
\* runs on valid data only, and every stored item meets the constraints.
C9_InvalidPayloadNeverReachesStore ==
    [][/\ \A t \in Tasks :
            (pc[t] = "call" /\ pc'[t] # "call" /\ "body" \in DOMAIN req[t]
                /\ req[t].body \in InvalidBodies06 \cup {b \in Bodies09 :
                       "value" \notin DOMAIN b
                           \/ b.value <= MinValueExclusive})
                => /\ pc'[t] = "idle"
                   /\ resp'.status \in {400, 422}
                   /\ UNCHANGED <<store_vars, history_vars>>
       /\ \A t \in Tasks :
            /\ pc'[t] \in {"create06_id", "create06_store",
                           "create06_return"}
                   => MeetsItemConstraints(req'[t].item)
            /\ pc'[t] = "validate_return"
                   => req'[t].data.value > MinValueExclusive
       /\ snapshot = "06" =>
            \A i \in DOMAIN items_db' :
                MeetsItemConstraints(items_db'[i].v)]_vars

\* an invalid create has been rejected while the store holds an item
C9_Witness ==
    /\ snapshot = "06"
    /\ resp.status = 422
    /\ items_db # <<>>

\* C10 as stated: the number of live records is the number of successful
\* creates minus the number of successful deletes.
C10_LiveIsCreatesMinusDeletes ==
    snapshot = "12" => Len(items_db) = Len(assigned) - n_deleted

\* C10 amended: the number of live records is the number of records the
\* store was seeded with plus the number of successful creates minus the
\* number of successful deletes, and read_items returns that many.
C10_LiveIsSeedPlusCreatesMinusDeletes ==
    /\ Len(LiveRecords) = Len(SeedRecords) + Len(assigned) - n_deleted
    /\ "body_array" \in DOMAIN resp
           => Len(resp.body_array) = Len(LiveRecords)

\* creates and a delete have happened on the seeded store of snapshot 12
C10_Witness ==
    /\ snapshot = "12"
    /\ Len(assigned) = 2
    /\ n_deleted = 1
    /\ Len(items_db) = 3

\* C11: a read that finds the id a create assigned returns the id with
\* exactly the record that create stored, which is the validated payload
\* of the create request (snapshot 06 has no update and no delete).
C11_ReadReturnsCreated ==
    [][\A t \in Tasks :
         (snapshot = "06" /\ req[t].op = "read_item" /\ Ends(t)) =>
            IF \E i \in DOMAIN assigned : assigned[i] = req[t].item_id
            THEN \A i \in DOMAIN assigned :
                    assigned[i] = req[t].item_id =>
                        /\ resp'.status = 200
                        /\ resp'.body.item_id = req[t].item_id
                        /\ ResponseRecord(resp'.body) = created[i]
            ELSE resp'.status = 404]_vars

\* the second of two different created records has been read
C11_Witness ==
    /\ snapshot = "06"
    /\ resp.status = 200
    /\ Len(created) = 2
    /\ created[1] # created[2]
    /\ resp.body.item_id = 2
    /\ ResponseRecord(resp.body) = created[2]

\* C12: in every reachable state the entries of a store are in ascending
\* key order, and read_items answers with the public projection of every
\* entry of fake_items_db, one element per entry, in that order.
C12_ListIsLiveInIdOrder ==
    [][/\ \A i, j \in DOMAIN LiveRecords :
            i < j => LiveRecords[i].k < LiveRecords[j].k
       /\ \A i, j \in DOMAIN LiveRecords' :
            i < j => LiveRecords'[i].k < LiveRecords'[j].k
       /\ \A t \in Tasks :
            (req[t].op = "read_items" /\ Ends(t)) =>
                /\ resp'.status = 200
                /\ DOMAIN resp'.body_array = DOMAIN fake_items_db
                /\ \A i \in DOMAIN fake_items_db :
                       resp'.body_array[i] = Public(fake_items_db[i].v)]_vars

\* read_items has answered with the three seeded items, Keyboard first,
\* after a user was created
C12_Witness ==
    /\ snapshot = "10"
    /\ "body_array" \in DOMAIN resp
    /\ Len(resp.body_array) = Len(SeedItems10)
    /\ resp.body_array[1].name = "Keyboard"
    /\ fake_users_db # <<>>

\* the largest key of a non-empty dict
MaxKey(d) == CHOOSE k \in DictKeys(d) : \A j \in DictKeys(d) : j <= k

\* the creates that have written their record and not yet incremented
CreatesBeforeIncr ==
    Cardinality({t \in Tasks : pc[t] \in {"create12_info", "create12_incr"}})

\* C13: in every reachable state of snapshot 12 the counter is one past the
\* highest seeded id plus the number of creates that have executed their
\* increment: it starts there, each create adds exactly 1, and no other
\* step (update, delete, a failed request) changes it.  In snapshot 06,
\* where the store starts empty and the id is computed from its length,
\* the next id is 1 plus the number of creates.
C13_CounterCountsCreates ==
    /\ snapshot = "12" =>
           item_next_id =
               MaxKey(SeedItems12) + 1 + Len(assigned) - CreatesBeforeIncr
    /\ snapshot = "06" => Len(items_db) + 1 = 1 + Len(assigned)

\* two creates, a delete and a failed request have happened
C13_Witness ==
    /\ snapshot = "12"
    /\ item_next_id = InitialNextId12 + 2
    /\ n_deleted = 1
    /\ resp.status = 404

\* the keys of d whose record differs in e, and the keys of d that e lacks
ChangedKeys(d, e) ==
    {k \in DictKeys(d) : DictHas(e, k) /\ DictGet(e, k) # DictGet(d, k)}
RemovedKeys(d, e) == DictKeys(d) \ DictKeys(e)

\* the step of task t changes a record of d only as update_item's store of
\* its item_id, and removes a key only as delete_item's del of its item_id
OnlyUpdateAndDelete(t, d, e) ==
    /\ ChangedKeys(d, e) # {} =>
           (pc[t] = "update_store" /\ ChangedKeys(d, e) = {req[t].item_id})
    /\ RemovedKeys(d, e) # {} =>
           (pc[t] = "delete_del" /\ RemovedKeys(d, e) = {req[t].item_id})

\* C14 as stated: the record under an existing key of a store (items_db,
\* fake_items_db, fake_users_db) changes only by update's store and the key
\* disappears only by delete; no create replaces a stored record.
C14_OnlyUpdateChangesARecord ==
    [][\A t \in Tasks :
         pc[t] # pc'[t] =>
            /\ OnlyUpdateAndDelete(t, items_db, items_db')
            /\ OnlyUpdateAndDelete(t, fake_items_db, fake_items_db')
            /\ OnlyUpdateAndDelete(t, fake_users_db, fake_users_db')]_vars

\* the statements of update_item
UpdateLabels == {"update_check", "update_compare", "update_store",
                 "update_return"}

\* C15: update_item runs from its first statement to its response with no
\* other handler in between, and the store state it starts in determines
\* its outcome: id absent, 404 and nothing changed; id present with a
\* record equal to the payload, 304 without a body and nothing changed;
\* id present with a different record, the payload is stored under id,
\* nothing else changes, and the answer is 200 with the stored record.
C15_UpdateOutcomes ==
    [][\A t \in Tasks :
         LET id == req[t].item_id
             present == DictHas(items_db, id)
             same == present /\ DictGet(items_db, id) = req[t].item
         IN  /\ pc'[t] \in UpdateLabels => running' = t
             /\ (pc[t] \in UpdateLabels /\ pc[t] # pc'[t]) =>
                  CASE pc[t] = "update_check" ->
                         /\ UNCHANGED store_vars
                         /\ IF present
                            THEN pc'[t] = "update_compare"
                            ELSE /\ pc'[t] = "idle"
                                 /\ resp'.status = 404
                    [] pc[t] = "update_compare" ->
                         /\ present
                         /\ UNCHANGED store_vars
                         /\ IF same
                            THEN /\ pc'[t] = "idle"
                                 /\ resp' = [status |-> 304]
                            ELSE pc'[t] = "update_store"
                    [] pc[t] = "update_store" ->
                         /\ present /\ ~same
                         /\ pc'[t] = "update_return"
                         /\ DictKeys(items_db') = DictKeys(items_db)
                         /\ DictGet(items_db', id) = req[t].item
                         /\ \A k \in DictKeys(items_db) \ {id} :
                                DictGet(items_db', k) = DictGet(items_db, k)
                         /\ item_next_id' = item_next_id
                    [] pc[t] = "update_return" ->
                         /\ UNCHANGED store_vars
                         /\ pc'[t] = "idle"
                         /\ resp' = [status |-> 200, body |-> req[t].item]
                         /\ DictGet(items_db, id) = req[t].item]_vars

\* an update has answered 304 for a record that a create stored
C15_Witness ==
    /\ snapshot = "12"
    /\ resp = [status |-> 304]
    /\ assigned # <<>>
    /\ n_deleted > 0

\* the file that file_path names lies in the download directory
ResolvesInsideDownloadDir(file_path) ==
    StartsWith(abspath(file_path), abspath(DOWNLOAD_DIR))

\* C16 as stated: a download request for a file that exists inside the
\* download directory is answered with that file (200), a request for a
\* name that is no file there with 404, and 403 is answered only when the
\* resolved path lies outside the download directory.
C16_ExistingFileIsServed ==
    [][\A t \in Tasks :
         (req[t].op \in Routes15 /\ Ends(t)) =>
            LET file_path == join(DOWNLOAD_DIR, basename(req[t].file_name))
            IN  /\ isfile(file_path) /\ ResolvesInsideDownloadDir(file_path)
                    => /\ resp'.status = 200
                       /\ resp'.content = disk[abspath(file_path)]
                /\ ~isfile(file_path) => resp'.status = 404
                /\ resp'.status = 403 => ~ResolvesInsideDownloadDir(file_path)]_vars

\* C17: upload_multiple_files answers 200 with one entry per input file, in
\* input order: entry i names file i and holds either its save_path, the
\* upload directory joined with the base name, or an error; a file that
\* cannot be opened gets an error entry and the files after it are still
\* processed; the count in the message is the number of input files.
C17_OneEntryPerFile ==
    [][\A t \in Tasks :
         (req[t].op = "upload_multiple_files" /\ Ends(t)) =>
            LET files == req[t].files
                details == resp'.body.details
            IN  /\ resp'.status = 200
                /\ Len(details) = Len(files)
                /\ resp'.body.message =
                       StrInt(Len(files)) \o <<" files processed.">>
                /\ \A i \in DOMAIN files :
                     /\ details[i].filename = files[i].filename
                     /\ \/ /\ DOMAIN details[i] = {"filename", "save_path"}
                           /\ details[i].save_path =
                                  join(UPLOAD_DIR,
                                       basename(files[i].filename))
                           /\ files[i] # UploadDot
                        \/ DOMAIN details[i] = {"filename", "error"}]_vars

\* the second of three files failed and the third was saved
C17_Witness ==
    /\ snapshot = "14"
    /\ resp.status = 200
    /\ "details" \in DOMAIN resp.body
    /\ Len(resp.body.details) = 3
    /\ "save_path" \in DOMAIN resp.body.details[1]
    /\ "error" \in DOMAIN resp.body.details[2]
    /\ "save_path" \in DOMAIN resp.body.details[3]

\* C18 as stated: when upload_single_file answers with a save_path, the
\* file at that path holds exactly the content of that upload, whatever
\* other uploads are in progress.
C18_SavedFileHoldsTheUpload ==
    [][\A t \in Tasks :
         (req[t].op = "upload_single_file" /\ Ends(t)
             /\ resp'.status = 200) =>
            /\ abspath(resp'.body.save_path) \in DOMAIN disk'
            /\ disk'[abspath(resp'.body.save_path)] =
                   req[t].file.content]_vars

\* the statements that run only when verify_api_key has returned: the
\* bodies of read_secure_data and read_admin_data, and verify_admin_access
AfterVerifyLabels == {"read_secure_data", "read_admin_data",
                      "verify_admin_access"}

\* C19: a request of /secure-data/ or /admin-only/ is at a handler body or
\* at verify_admin_access only with the expected key, which verify_api_key
\* has returned for this request; a request with a missing or different
\* key goes from its call to verify_api_key and from there to a 403
\* response, through no other statement.
C19_BodiesRunAfterVerifyApiKey ==
    [][\A t \in Tasks :
         /\ pc'[t] \in AfterVerifyLabels =>
              /\ req'[t].x_api_key = Some("fakeapikey")
              /\ local'[t].api_key = req'[t].x_api_key
              /\ pc[t] \in AfterVerifyLabels
                     \cup {"secure_verify_api_key", "admin_verify_api_key"}
         /\ (req[t].op \in {"read_secure_data", "read_admin_data"}
                /\ pc[t] # "call" /\ pc[t] # pc'[t]
                /\ req[t].x_api_key # Some("fakeapikey")) =>
              /\ pc[t] \in {"secure_verify_api_key", "admin_verify_api_key"}
              /\ pc'[t] = "idle"
              /\ resp'.status = 403]_vars

\* verify_api_key has just refused a request with a missing or different
\* key, and another request of /admin-only/ is waiting to be served
C19_Witness ==
    /\ snapshot = "07"
    /\ resp = HTTPException(403, "Invalid API Key")
    /\ \E t \in Tasks : pc[t] = "call" /\ req[t].op = "read_admin_data"

\* the statements of snapshot 08 that run inside call_next
EndpointLabels08 == {"cors_preflight", "not_found", "read_root",
                     "ping_sleep", "ping_return"}

CounterAboveEveryKey == \A k \in DictKeys(items_db) : k < item_next_id

C22_KeysAreOneToN ==
    snapshot = "06" =>
        /\ Len(items_db) = Len(assigned)
        /\ DictKeys(items_db) = 1..Len(assigned)
        /\ \A i \in DOMAIN items_db :
               /\ items_db[i].k = i
               /\ assigned[i] = i
               /\ items_db[i].v = created[i]
        /\ \A t \in Tasks :
               pc[t] = "create06_store" =>
                   /\ local[t].item_id = Len(items_db) + 1
                   /\ ~DictHas(items_db, local[t].item_id)

\* the second create has computed its id and is about to store under it
C22_Witness ==
    /\ snapshot = "06"
    /\ Len(items_db) = 1
    /\ \E t \in Tasks : pc[t] = "create06_store" /\ local[t].item_id = 2

\* the statements of snapshot 12 that write items_db or item_next_id
WriteLabels12 == {"create12_store", "create12_incr", "delete_del",
                  "update_store"}

\* every record of d but the one under id is the same in e
OthersUnchanged(d, e, id) ==
    \A k \in DictKeys(d) \ {id} :
        DictHas(e, k) /\ DictGet(e, k) = DictGet(d, k)

\* C23: in snapshot 12 the store of update_item changes only the record
\* under its id and leaves the key set, every other record and the counter
\* unchanged; the del of delete_item removes only the key id and leaves
\* every other record and the counter unchanged; the store of create_item
\* adds exactly one key and leaves every existing record unchanged, and its
\* increment leaves items_db unchanged; no other statement of a handler
\* changes items_db or the counter.
C23_FrameEffects ==
    [][\A t \in Tasks :
         (snapshot = "12" /\ pc[t] # pc'[t]) =>
            LET id == req[t].item_id
            IN  CASE pc[t] = "update_store" ->
                       /\ DictKeys(items_db') = DictKeys(items_db)
                       /\ Len(items_db') = Len(items_db)
                       /\ DictGet(items_db', id) = req[t].item
                       /\ OthersUnchanged(items_db, items_db', id)
                       /\ item_next_id' = item_next_id
                  [] pc[t] = "delete_del" ->
                       /\ DictKeys(items_db') = DictKeys(items_db) \ {id}
                       /\ Len(items_db') = Len(items_db) - 1
                       /\ OthersUnchanged(items_db, items_db', id)
                       /\ item_next_id' = item_next_id
                  [] pc[t] = "create12_store" ->
                       /\ Cardinality(DictKeys(items_db') \ DictKeys(items_db))
                              = 1
                       /\ Len(items_db') = Len(items_db) + 1
                       /\ \A k \in DictKeys(items_db) :
                              /\ DictHas(items_db', k)
                              /\ DictGet(items_db', k) = DictGet(items_db, k)
                       /\ item_next_id' = item_next_id
                  [] pc[t] = "create12_incr" -> items_db' = items_db
                  [] OTHER -> UNCHANGED store_vars]_vars

\* a create, an update that changed a seeded record and a delete have
\* succeeded, the delete last
C23_Witness ==
    /\ snapshot = "12"
    /\ resp.status = 204
    /\ Len(assigned) = 1
    /\ DictHas(items_db, LastAssigned)
    /\ \E i \in DOMAIN SeedItems12 :
         /\ DictHas(items_db, SeedItems12[i].k)
         /\ DictGet(items_db, SeedItems12[i].k) # SeedItems12[i].v

====
